---- MODULE Spec2Model ----
(***************************************************************************)
(* Agentic belief propagation: the simulation engine (simulation.py), the  *)
(* conversation window and its worker thread (chat_gui.py), the network    *)
(* layouts (grid_layouts.py), the log writer (simulation_logger.py) and    *)
(* the log reader of the replay tool (replay_chat.py).                     *)
(*                                                                         *)
(* Texts (beliefs, messages, the log file) are sequences of lexemes: one   *)
(* character each for the free text, one lexeme for each literal chunk the *)
(* logger writes (a label, a rule of 40 dashes or 80 equal signs).         *)
(***************************************************************************)
EXTENDS Integers, Sequences, FiniteSets, TLC

VARIABLES
    layout_type,            \* class of the layout: grid4, grid8, ring, mesh, star
    size,                   \* Grid4Layout.size / Grid8Layout.size (0 for the others)
    n_agents,               \* layout.n_agents
    beliefs,                \* layout.beliefs
    catalog,                \* beliefs loaded by load_beliefs
    RANDOM_SEED,            \* simulation.py RANDOM_SEED (NoSeed for None)
    CONVERSATION_ROUNDS,    \* simulation.py CONVERSATION_ROUNDS
    SIMULATION_ITERATIONS,  \* simulation.py SIMULATION_ITERATIONS
    rng,                    \* state of the module-level generator of `random`
    pc,                     \* position of the main thread
    error,                  \* exception that ended the run ("none" while running)
    iteration,              \* loop variable of run_simulation
    belief_changes,         \* run_simulation belief_changes
    agent_id, neighbor_id,  \* the two draws of an iteration
    persuader_id, defender_id,
    persuader_belief, defender_belief,
    conversation, new_belief, change_type,   \* what run_conversation_with_gui returned
    wpc,                    \* position of the worker thread
    round_num,              \* loop variable of run_conversation (0-based)
    conversation_history,   \* run_conversation conversation_history
    worker_belief,          \* new_belief as a local of the worker, once conversation_func returned
    result,                 \* the result dict shared by the worker and the main thread
    message_queue,          \* gui.message_queue
    rendered,               \* what the window has shown, in order
    close_scheduled,        \* gui._close_scheduled
    log_file,               \* text written to the log file
    log_closed,             \* the log file has been closed
    start_beliefs,          \* layout.beliefs right after initialize
    pairs,                  \* (persuader id, defender id) of the iterations started
    completed,              \* the iterations that ran to the end of the loop body
    previous,               \* what an earlier run of the same configuration did
    iterations,             \* what parse_log_file returned for the log (replay_chat.py)
    call,                   \* the last call on a layout: its name, its number or id and its text
    returned                \* what that call returned, or the exception it raised

vars == << layout_type, size, n_agents, beliefs, catalog, RANDOM_SEED,
           CONVERSATION_ROUNDS, SIMULATION_ITERATIONS, rng, pc, error, iteration,
           belief_changes, agent_id, neighbor_id, persuader_id, defender_id,
           persuader_belief, defender_belief, conversation, new_belief, change_type,
           wpc, round_num, conversation_history, worker_belief, result, message_queue,
           rendered, close_scheduled, log_file, log_closed, start_beliefs, pairs, completed,
           previous, iterations, call, returned >>

-----------------------------------------------------------------------------
(* Bounds of the model.                                                     *)

MaxAgents == 3          \* ring, mesh and star are built with up to MaxAgents agents
MaxSide == 2            \* grids are built with a side of up to MaxSide
MaxIterations == 2      \* SIMULATION_ITERATIONS ranges over 1..MaxIterations
MaxRounds == 1          \* CONVERSATION_ROUNDS ranges over 1..MaxRounds
MaxLen == 2             \* free text (a belief to classify, a message to log) has up to MaxLen characters
MaxNodes == 6           \* a layout on its own: ring, mesh and star with up to MaxNodes agents
MaxGridSide == 3        \* a layout on its own: grids with a side of up to MaxGridSide
MaxCalls == 2           \* a layout on its own: up to MaxCalls method calls after its construction
MaxTurns == 3           \* a conversation on its own: `rounds` ranges over 0..MaxTurns

-----------------------------------------------------------------------------
(* Python values.                                                           *)

NoSeed == -1                      \* RANDOM_SEED = None
NoId == -1                        \* an id not yet assigned
None == << "None" >>              \* None where a text or a list is expected

PyMin(a, b) == IF a < b THEN a ELSE b

\* s[:n]
Prefix(s, n) == SubSeq(s, 1, PyMin(n, Len(s)))

\* str.isspace() of one character
IsSpace(c) == c \in {" ", "\n", "\t"}

\* str.lower() / str.upper() of one character or of one word lexeme
CasePairs ==
    { <<"I", "i">>, <<"S", "s">>, <<"Z", "z">>,
      <<"PERSUADER", "persuader">>, <<"DEFENDER", "defender">>,
      <<"UNCHANGED", "unchanged">>, <<"SIMILAR", "similar">>, <<"CHANGED", "changed">>,
      <<"STAR", "star">>, <<"Grid4", "grid4">> }

LowerChar(c) ==
    IF \E p \in CasePairs : p[1] = c THEN (CHOOSE p \in CasePairs : p[1] = c)[2] ELSE c

UpperChar(c) ==
    IF \E p \in CasePairs : p[2] = c THEN (CHOOSE p \in CasePairs : p[2] = c)[1] ELSE c

\* str.lower()
Lower(s) == [i \in 1..Len(s) |-> LowerChar(s[i])]

\* str.strip(): drop the whitespace at both ends
Strip(s) ==
    LET keep == {i \in 1..Len(s) : ~IsSpace(s[i])}
    IN  IF keep = {} THEN << >>
        ELSE LET lo == CHOOSE i \in keep : \A j \in keep : i <= j
                 hi == CHOOSE i \in keep : \A j \in keep : j <= i
             IN  SubSeq(s, lo, hi)

-----------------------------------------------------------------------------
(* chat_gui.py: the change classification computed by the worker.           *)

PrefixLen == 20

DetermineChangeType_trimmed(old_belief, new) ==
    LET old_clean == Strip(Lower(old_belief))
        new_clean == Strip(Lower(new))
    IN  IF new_clean = old_clean THEN "unchanged"
        ELSE IF Prefix(new_clean, PrefixLen) = Prefix(old_clean, PrefixLen) THEN "similar"
        ELSE "changed"

DetermineChangeType_rawcompare(old_belief, new) ==
    LET new_clean == Strip(Lower(new))
    IN  IF new_clean = old_belief THEN "unchanged"
        ELSE IF Lower(Prefix(new, PrefixLen)) = Lower(Prefix(old_belief, PrefixLen)) THEN "similar"
        ELSE "changed"

\* equal lowered prefixes taken for equal beliefs
DetermineChangeType_prefixOnly(old_belief, new) ==
    IF Lower(Prefix(new, PrefixLen)) = Lower(Prefix(old_belief, PrefixLen)) THEN "unchanged"
    ELSE "changed"

DetermineChangeType(old_belief, new) ==
    LET old_clean == Strip(Lower(old_belief))
        new_clean == Strip(Lower(new))
    IN  IF new_clean = old_clean THEN "unchanged"
        ELSE IF Lower(Prefix(new, PrefixLen)) = Lower(Prefix(old_belief, PrefixLen)) THEN "similar"
        ELSE "changed"

-----------------------------------------------------------------------------
(* grid_layouts.py: the five layouts.                                       *)

LayoutTypes == {"grid4", "grid8", "ring", "mesh", "star"}

\* [(-1, 0), (1, 0), (0, -1), (0, 1)]
Offsets4 == << <<-1, 0>>, <<1, 0>>, <<0, -1>>, <<0, 1>> >>

\* for dr in [-1, 0, 1]: for dc in [-1, 0, 1]: skip (0, 0)
Offsets8 == << <<-1, -1>>, <<-1, 0>>, <<-1, 1>>, <<0, -1>>, <<0, 1>>,
               <<1, -1>>, <<1, 0>>, <<1, 1>> >>

\* _id_to_pos / _pos_to_id
IdToPos(s, id) == << id \div s, id % s >>
PosToId(s, row, col) == row * s + col

\* the bounds test with `<=` for `<`
GridNeighbors_inclusive(offsets, s, id) ==
    LET pos == IdToPos(s, id)
        InBounds(o) == /\ 0 <= pos[1] + o[1] /\ pos[1] + o[1] <= s
                       /\ 0 <= pos[2] + o[2] /\ pos[2] + o[2] <= s
        kept == SelectSeq(offsets, InBounds)
    IN  [i \in 1..Len(kept) |-> PosToId(s, pos[1] + kept[i][1], pos[2] + kept[i][2])]

GridNeighbors(offsets, s, id) ==
    LET pos == IdToPos(s, id)
        InBounds(o) == /\ 0 <= pos[1] + o[1] /\ pos[1] + o[1] < s
                       /\ 0 <= pos[2] + o[2] /\ pos[2] + o[2] < s
        kept == SelectSeq(offsets, InBounds)
    IN  [i \in 1..Len(kept) |-> PosToId(s, pos[1] + kept[i][1], pos[2] + kept[i][2])]

RingNeighbors(n, id) == << (id - 1) % n, (id + 1) % n >>

\* [i for i in range(agent_id)]
MeshNeighbors_below(n, id) == [i \in 1..(IF id > 0 THEN id ELSE 0) |-> i - 1]

\* [i for i in range(n) if i != agent_id]
MeshNeighbors(n, id) ==
    [i \in 1..(IF id \in 0..(n - 1) THEN n - 1 ELSE n) |->
        IF id \in 0..(n - 1) /\ i - 1 >= id THEN i ELSE i - 1]

\* spokes without the else branch
StarNeighbors_spokesAlone(n, id) ==
    IF id = 0 THEN [i \in 1..(n - 1) |-> i] ELSE << >>

\* range(0, n) for range(1, n)
StarNeighbors_fromZero(n, id) ==
    IF id = 0 THEN [i \in 1..n |-> i - 1] ELSE << 0 >>

StarNeighbors(n, id) ==
    IF id = 0 THEN [i \in 1..(n - 1) |-> i] ELSE << 0 >>

\* layout.get_neighbors(agent_id)
GetNeighbors(type, s, n, id) ==
    CASE type = "grid4" -> GridNeighbors(Offsets4, s, id)
      [] type = "grid8" -> GridNeighbors(Offsets8, s, id)
      [] type = "ring"  -> RingNeighbors(n, id)
      [] type = "mesh"  -> MeshNeighbors(n, id)
      [] type = "star"  -> StarNeighbors(n, id)

-----------------------------------------------------------------------------
(* Numbers written into a text and read back.                               *)

Digits == << "0", "1", "2", "3", "4", "5", "6", "7", "8", "9" >>

IsDigit(c) == \E i \in 1..Len(Digits) : Digits[i] = c

DigitValue(c) == (CHOOSE i \in 1..Len(Digits) : Digits[i] = c) - 1

\* f"{n}" of a non-negative integer
RECURSIVE IntToText(_)
IntToText(n) ==
    IF n < Len(Digits) THEN << Digits[n + 1] >>
    ELSE IntToText(n \div Len(Digits)) \o << Digits[(n % Len(Digits)) + 1] >>

\* int(text) of a run of digits
RECURSIVE TextToInt(_)
TextToInt(t) ==
    IF Len(t) = 0 THEN 0
    ELSE TextToInt(SubSeq(t, 1, Len(t) - 1)) * Len(Digits) + DigitValue(t[Len(t)])

\* layout.get_position_label(agent_id)
GetPositionLabel(type, s, id) ==
    CASE type \in {"grid4", "grid8"} ->
            << "(" >> \o IntToText(IdToPos(s, id)[1]) \o << ",", " " >>
                      \o IntToText(IdToPos(s, id)[2]) \o << ")" >>
      [] type = "ring" -> << "[ring pos " >> \o IntToText(id) \o << "]" >>
      [] type = "mesh" -> << "[mesh node " >> \o IntToText(id) \o << "]" >>
      [] type = "star" ->
            IF id = 0 THEN << "[hub]" >>
            ELSE << "[spoke " >> \o IntToText(id) \o << "]" >>

-----------------------------------------------------------------------------
(* The module-level generator of `random`: a deterministic function of its  *)
(* state, which every draw advances by one step.                            *)

\* state after one draw
NextRandom(s) == (5 * s + 3) % 16

\* random.seed(seed); without a seed the state is what the process started with
SeedRandom_unseeded(seed, entropy) == entropy

SeedRandom(seed, entropy) == IF seed # NoSeed THEN seed % 16 ELSE entropy

\* random._randbelow(n) drawn in state s
RandBelow(s, n) == s % n

\* random.random() < 0.5 drawn in state s
RandomBelowHalf(s) == s < 8

\* the state after k draws
RECURSIVE Advance(_, _)
Advance(s, k) == IF k = 0 THEN s ELSE Advance(NextRandom(s), k - 1)

\* [random.choice(beliefs) for _ in range(n)] drawn from state s
InitialBeliefs(cat, n, s) ==
    [i \in 1..n |-> cat[RandBelow(Advance(s, i - 1), Len(cat)) + 1]]

-----------------------------------------------------------------------------
(* simulation_logger.py: what each call writes to the log file.             *)

NL == "\n"
Rule80 == "=*80"                  \* "=" * 80
Rule40 == "-*40"                  \* "-" * 40
Timestamp == "<isoformat>"        \* datetime.now().isoformat()
MODEL == "gemma3"

\* _write_header
WriteHeader ==
    << Rule80, NL, "AGENTIC BELIEF PROPAGATION SIMULATION LOG", NL,
       "Started: ", Timestamp, NL, Rule80, NL, NL >>

\* log_config(grid_size, rounds, iterations, model, seed); n_iterations is `iterations`
LogConfig(grid_size, rounds, n_iterations, model, seed) ==
    << "CONFIGURATION", NL, Rule40, NL, "Grid size: " >>
    \o IntToText(grid_size) \o << "x" >> \o IntToText(grid_size)
    \o << " (" >> \o IntToText(grid_size * grid_size) \o << " agents)", NL >>
    \o << "Conversation rounds: " >> \o IntToText(rounds) \o << NL >>
    \o << "Simulation iterations: " >> \o IntToText(n_iterations) \o << NL >>
    \o << "Model: ", model, NL >>
    \o (IF seed # NoSeed THEN << "Random seed: " >> \o IntToText(seed) \o << NL >>
        ELSE << "Random seed: None (non-reproducible)", NL >>)
    \o << NL >>

\* log_beliefs(beliefs)
RECURSIVE LogBeliefsFrom(_, _)
LogBeliefsFrom(bs, i) ==
    IF i > Len(bs) THEN << >>
    ELSE << "[" >> \o IntToText(i - 1) \o << "] " >> \o bs[i] \o << NL >>
         \o LogBeliefsFrom(bs, i + 1)

LogBeliefs(bs) ==
    << "AVAILABLE BELIEFS", NL, Rule40, NL >> \o LogBeliefsFrom(bs, 1) \o << NL >>

\* log_system_prompts(persuader_prompt, defender_prompt)
LogSystemPrompts ==
    << "SYSTEM PROMPTS", NL, Rule40, NL, "PERSUADER PROMPT:", NL,
       "<persuader prompt>", NL, NL, "DEFENDER PROMPT:", NL,
       "<defender prompt>", NL, NL, Rule40, NL, NL >>

\* the per-agent lines of the starting and of the final block
RECURSIVE LogAgentsFrom(_, _, _, _)
LogAgentsFrom(type, s, bs, i) ==
    IF i > Len(bs) THEN << >>
    ELSE << "Agent " >> \o IntToText(i - 1) \o << " @ " >>
         \o GetPositionLabel(type, s, i - 1) \o << ":", NL, "  " >> \o bs[i]
         \o << NL, NL >> \o LogAgentsFrom(type, s, bs, i + 1)

\* log_starting_grid_from_layout(layout)
LogStartingGridFromLayout(type, s, bs) ==
    << "STARTING GRID BELIEFS", NL, Rule40, NL >> \o LogAgentsFrom(type, s, bs, 1)
    \o << NL >>

\* log_iteration_start(iteration, total, persuader_id, persuader_pos,
\*                     defender_id, defender_pos, persuader_belief, defender_belief)
LogIterationStart(it, total, p_id, p_pos, d_id, d_pos, p_belief, d_belief) ==
    << Rule80, NL, "ITERATION", " " >> \o IntToText(it) \o << "/" >> \o IntToText(total)
    \o << NL, "Time: ", Timestamp, NL, Rule80, NL, NL >>
    \o << "PERSUADER", ":", " Agent " >> \o IntToText(p_id) \o << " @ " >> \o p_pos \o << NL >>
    \o << "Belief: " >> \o p_belief \o << NL, NL >>
    \o << "DEFENDER", ":", " Agent " >> \o IntToText(d_id) \o << " @ " >> \o d_pos \o << NL >>
    \o << "Belief: " >> \o d_belief \o << NL, NL >>
    \o << Rule40, NL, "CONVERSATION", NL, Rule40, NL, NL >>

\* log_message(speaker, round_num, content)
LogMessage(speaker, rnd, content) ==
    << "[Round", " " >> \o IntToText(rnd) \o << "]", " ", UpperChar(speaker), ":", NL >>
    \o content \o << NL, NL >>

\* log_decision(old_belief, new_belief, change_type)
LogDecision(old_belief, new, change) ==
    << Rule40, NL, "DECISION", NL, Rule40, NL >>
    \o << "Old belief: " >> \o old_belief \o << NL, NL >>
    \o << "New belief: " >> \o new \o << NL, NL >>
    \o << "Change type: ", UpperChar(change), NL, NL >>

\* log_final_grid_from_layout(layout)
LogFinalGridFromLayout(type, s, bs) ==
    << Rule80, NL, "FINAL GRID", " BELIEFS", NL, Rule80, NL, NL >>
    \o LogAgentsFrom(type, s, bs, 1)

\* f"{belief_changes/total_iterations*100:.1f}", to the nearest tenth
ChangeRate(changes, total) ==
    LET tenths == (2000 * changes + total) \div (2 * total)
    IN  IntToText(tenths \div 10) \o << "." >> \o IntToText(tenths % 10)

\* the two counts in each other's place
LogSummary_swapped(total, changes) ==
    << Rule80, NL, "SIMULATION SUMMARY", NL, Rule80, NL, "Completed: ", Timestamp, NL >>
    \o << "Total iterations: " >> \o IntToText(changes) \o << NL >>
    \o << "Belief changes detected: " >> \o IntToText(total) \o << NL >>
    \o << "Change rate: " >> \o ChangeRate(changes, total) \o << "%", NL >>

\* log_summary(total_iterations, belief_changes)
LogSummary(total, changes) ==
    << Rule80, NL, "SIMULATION SUMMARY", NL, Rule80, NL, "Completed: ", Timestamp, NL >>
    \o << "Total iterations: " >> \o IntToText(total) \o << NL >>
    \o << "Belief changes detected: " >> \o IntToText(changes) \o << NL >>
    \o << "Change rate: " >> \o ChangeRate(changes, total) \o << "%", NL >>

-----------------------------------------------------------------------------
(* Inputs of the engine: the belief file, the configuration, the replies of *)
(* the chat backend and the start state of an unseeded generator.           *)

\* twenty characters shared by a belief and its rephrasings
Stem == << "I", " ", "s", "a", "v", "e", " ", "m", "o", "n", "e", "y", " ",
           "t", "o", " ", "f", "e", "e", "l" >>

BeliefSave == Stem \o << " ", "f", "r", "e", "e" >>
BeliefSpend == << "I", " ", "s", "p", "e", "n", "d" >>

Catalogs == { << BeliefSave, BeliefSpend >> }

Seeds == {NoSeed, 42}

Entropy == {3, 12}

\* persuader_response["message"]["content"], defender_response["message"]["content"]
PersuaderTexts == { << "h", "i" >> }
DefenderTexts == { << "n", "o" >> }

\* final_response["message"]["content"]: keep the belief, take the persuader's,
\* rephrase the own belief after its first characters, or repeat the own belief
\* in lower case
FinalReplies(p_belief, d_belief) ==
    { d_belief, p_belief, Prefix(d_belief, PrefixLen) \o << " ", "S", "a", "f", "e", NL >>,
      Lower(d_belief) }

\* str(e) of the exception a failed backend call raises
ErrorTexts == { "", "backend down" }

NoResult == [history |-> None, new_belief |-> None, error |-> "None",
             change_type |-> "<missing>"]

NoRun == [ran |-> FALSE, start |-> << >>, pairs |-> << >>, final |-> << >>]

\* no method of the layout has been called yet
NoCall == [op |-> "none", arg |-> NoId, text |-> None, nth |-> 0]
NoReturn == [raised |-> "none", value |-> << >>]

\* the layouts the constructors are called with: a side for the grids, a count
\* for the others
Layouts ==
    [type : {"grid4", "grid8"}, size : 1..MaxSide, n : {0}]
    \cup [type : {"ring", "mesh", "star"}, size : {0}, n : 1..MaxAgents]

-----------------------------------------------------------------------------
(* simulation.py run_simulation and chat_gui.py run_conversation_with_gui.  *)

\* the state of a process that has not yet entered run_simulation
FreshEngine ==
    /\ beliefs = << >>
    /\ rng = 0
    /\ error = "none"
    /\ belief_changes = 0
    /\ agent_id = NoId /\ neighbor_id = NoId
    /\ wpc = "idle"
    /\ round_num = 0
    /\ conversation_history = << >>
    /\ worker_belief = None
    /\ result = NoResult
    /\ message_queue = << >>
    /\ rendered = << >>
    /\ close_scheduled = FALSE
    /\ log_closed = FALSE
    /\ start_beliefs = << >>
    /\ pairs = << >>
    /\ completed = << >>

Fresh ==
    /\ FreshEngine
    /\ pc = "start"
    /\ iteration = 0
    /\ persuader_id = NoId /\ defender_id = NoId
    /\ persuader_belief = None /\ defender_belief = None
    /\ conversation = None /\ new_belief = None /\ change_type = "none"
    /\ log_file = << >>

Init ==
    /\ \E l \in Layouts :
          /\ layout_type = l.type
          /\ size = l.size
          /\ n_agents = IF l.type \in {"grid4", "grid8"} THEN l.size * l.size ELSE l.n
    /\ catalog \in Catalogs
    /\ RANDOM_SEED \in Seeds
    /\ CONVERSATION_ROUNDS \in 1..MaxRounds
    /\ SIMULATION_ITERATIONS \in 1..MaxIterations
    /\ previous = NoRun
    /\ iterations = << >>
    /\ call = NoCall /\ returned = NoReturn
    /\ Fresh

config == << layout_type, size, n_agents, catalog, RANDOM_SEED, CONVERSATION_ROUNDS,
             SIMULATION_ITERATIONS >>

iterVars == << iteration, agent_id, neighbor_id, persuader_id, defender_id,
               persuader_belief, defender_belief >>

retVars == << conversation, new_belief, change_type >>

guiVars == << message_queue, rendered, close_scheduled >>

workerVars == << wpc, round_num, conversation_history, worker_belief, result >>

ghostVars == << start_beliefs, pairs, completed >>

\* an exception leaves run_simulation
Raise(e) == pc' = "aborted" /\ error' = e

\* lines 189-245: logger, layout, seed, belief file, initial beliefs
Setup ==
    /\ pc = "start"
    /\ IF layout_type = "star" /\ n_agents < 2
       THEN /\ Raise("ValueError")
            /\ log_file' = WriteHeader
            /\ UNCHANGED << rng, beliefs, start_beliefs >>
       ELSE \E entropy \in Entropy :
            LET seeded == SeedRandom(RANDOM_SEED, entropy)
                drawn == InitialBeliefs(catalog, n_agents, seeded)
            IN  /\ rng' = Advance(seeded, n_agents)
                /\ beliefs' = drawn
                /\ start_beliefs' = drawn
                /\ log_file' = WriteHeader
                      \o LogConfig(n_agents, CONVERSATION_ROUNDS, SIMULATION_ITERATIONS,
                                   MODEL, RANDOM_SEED)
                      \o LogBeliefs(catalog) \o LogSystemPrompts
                      \o LogStartingGridFromLayout(layout_type, size, drawn)
                /\ pc' = "loop"
                /\ error' = "none"
    /\ UNCHANGED << config, iterVars, belief_changes, retVars, guiVars, workerVars,
                    log_closed, pairs, completed, previous, iterations, call, returned >>

\* layout.get_belief(agent_id)
GetBelief(bs, id) == bs[id + 1]

\* layout.set_belief(agent_id, belief)
SetBelief_shifted(bs, id, belief) == [bs EXCEPT ![((id + 1) % Len(bs)) + 1] = belief]

SetBelief(bs, id, belief) == [bs EXCEPT ![id + 1] = belief]

\* lines 253-264: the three draws of an iteration, from generator state s
SelectPair_roleFirst(type, sz, n, s) ==
    LET role == RandomBelowHalf(s)
        agent == RandBelow(NextRandom(s), n)
        neighbors == GetNeighbors(type, sz, n, agent)
    IN  IF Len(neighbors) = 0
        THEN [ok |-> FALSE, agent |-> agent, neighbor |-> NoId, persuader |-> NoId,
              defender |-> NoId, rng |-> NextRandom(NextRandom(s))]
        ELSE LET neighbor == neighbors[RandBelow(NextRandom(NextRandom(s)), Len(neighbors)) + 1]
             IN  [ok |-> TRUE, agent |-> agent, neighbor |-> neighbor,
                  persuader |-> IF role THEN agent ELSE neighbor,
                  defender |-> IF role THEN neighbor ELSE agent,
                  rng |-> Advance(s, 3)]

\* no role is drawn for two agents that hold the same belief
SelectPair_skipAgreeing(type, sz, n, s) ==
    LET agent == RandBelow(s, n)
        neighbors == GetNeighbors(type, sz, n, agent)
    IN  IF Len(neighbors) = 0
        THEN [ok |-> FALSE, agent |-> agent, neighbor |-> NoId, persuader |-> NoId,
              defender |-> NoId, rng |-> NextRandom(s)]
        ELSE LET neighbor == neighbors[RandBelow(NextRandom(s), Len(neighbors)) + 1]
                 agree == beliefs[agent + 1] = beliefs[neighbor + 1]
                 role == agree \/ RandomBelowHalf(NextRandom(NextRandom(s)))
             IN  [ok |-> TRUE, agent |-> agent, neighbor |-> neighbor,
                  persuader |-> IF role THEN agent ELSE neighbor,
                  defender |-> IF role THEN neighbor ELSE agent,
                  rng |-> IF agree THEN Advance(s, 2) ELSE Advance(s, 3)]

SelectPair(type, sz, n, s) ==
    LET agent == RandBelow(s, n)
        neighbors == GetNeighbors(type, sz, n, agent)
    IN  IF Len(neighbors) = 0
        THEN [ok |-> FALSE, agent |-> agent, neighbor |-> NoId, persuader |-> NoId,
              defender |-> NoId, rng |-> NextRandom(s)]
        ELSE LET neighbor == neighbors[RandBelow(NextRandom(s), Len(neighbors)) + 1]
                 role == RandomBelowHalf(NextRandom(NextRandom(s)))
             IN  [ok |-> TRUE, agent |-> agent, neighbor |-> neighbor,
                  persuader |-> IF role THEN agent ELSE neighbor,
                  defender |-> IF role THEN neighbor ELSE agent,
                  rng |-> Advance(s, 3)]

\* line 248: range(1, SIMULATION_ITERATIONS + 1) has a next element after `it`
LoopContinues_short(it, total) == it + 1 < total

LoopContinues(it, total) == it < total

\* lines 248-306 and chat_gui.py 435-476: the head of the loop body, up to the
\* start of the worker thread
StartIteration ==
    /\ pc = "loop"
    /\ LoopContinues(iteration, SIMULATION_ITERATIONS)
    /\ iteration' = iteration + 1
    /\ LET sel == SelectPair(layout_type, size, n_agents, rng)
       IN  /\ rng' = sel.rng
           /\ agent_id' = sel.agent
           /\ neighbor_id' = sel.neighbor
           /\ persuader_id' = sel.persuader
           /\ defender_id' = sel.defender
           /\ IF ~sel.ok
              THEN /\ Raise("IndexError")
                   /\ UNCHANGED << persuader_belief, defender_belief, log_file, pairs,
                                   workerVars >>
              ELSE /\ persuader_belief' = GetBelief(beliefs, sel.persuader)
                   /\ defender_belief' = GetBelief(beliefs, sel.defender)
                   /\ log_file' = log_file \o LogIterationStart(
                          iteration + 1, SIMULATION_ITERATIONS,
                          sel.persuader, GetPositionLabel(layout_type, size, sel.persuader),
                          sel.defender, GetPositionLabel(layout_type, size, sel.defender),
                          GetBelief(beliefs, sel.persuader), GetBelief(beliefs, sel.defender))
                   /\ pairs' = Append(pairs, << sel.persuader, sel.defender >>)
                   /\ wpc' = "persuader"
                   /\ round_num' = 0
                   /\ conversation_history' = << >>
                   /\ worker_belief' = None
                   /\ result' = NoResult
                   /\ pc' = "mainloop"
                   /\ error' = "none"
    /\ UNCHANGED << config, beliefs, belief_changes, retVars, guiVars, log_closed,
                    start_beliefs, completed, previous, iterations, call, returned >>

-----------------------------------------------------------------------------
(* The worker thread: chat_gui.py worker, running simulation.py             *)
(* run_conversation.                                                         *)

\* the conversation function has been entered and has neither returned nor raised
ConversationRunning == wpc \in {"persuader", "defender", "final"}

\* the process still runs this thread
WorkerAlive == pc \notin {"start", "done"}

Entry(rnd, speaker, content) == [round |-> rnd, speaker |-> speaker, content |-> content]

\* the history entry and the log without the callback
Speak_silent(speaker, content, next) ==
    /\ conversation_history' =
          Append(conversation_history, Entry(round_num + 1, speaker, content))
    /\ message_queue' = message_queue
    /\ log_file' = log_file \o LogMessage(speaker, round_num + 1, content)
    /\ wpc' = next

\* lines 76-98 / 101-123: one backend call, the history entry, the callback, the log
Speak(speaker, content, next) ==
    /\ conversation_history' =
          Append(conversation_history, Entry(round_num + 1, speaker, content))
    /\ message_queue' =
          Append(message_queue, << "message", Entry(round_num + 1, speaker, content) >>)
    /\ log_file' = log_file \o LogMessage(speaker, round_num + 1, content)
    /\ wpc' = next

WorkerPersuader ==
    /\ WorkerAlive
    /\ wpc = "persuader"
    /\ \E text \in PersuaderTexts : Speak("persuader", text, "defender")
    /\ UNCHANGED << config, beliefs, rng, pc, error, iterVars, belief_changes, retVars,
                    round_num, worker_belief, result, rendered, close_scheduled,
                    log_closed, ghostVars, previous, iterations, call, returned >>

WorkerDefender ==
    /\ WorkerAlive
    /\ wpc = "defender"
    /\ \E text \in DefenderTexts :
          Speak("defender", text,
                IF round_num + 1 < CONVERSATION_ROUNDS THEN "persuader" ELSE "final")
    /\ round_num' = round_num + 1
    /\ UNCHANGED << config, beliefs, rng, pc, error, iterVars, belief_changes, retVars,
                    worker_belief, result, rendered, close_scheduled, log_closed,
                    ghostVars, previous, iterations, call, returned >>

\* lines 135-141 and chat_gui.py 449-450: the decision call, the return of the
\* conversation function, result["history"]
WorkerFinal ==
    /\ WorkerAlive
    /\ wpc = "final"
    /\ \E reply \in FinalReplies(persuader_belief, defender_belief) :
          worker_belief' = Strip(reply)
    /\ result' = [result EXCEPT !.history = conversation_history]
    /\ wpc' = "store"
    /\ UNCHANGED << config, beliefs, rng, pc, error, iterVars, belief_changes, retVars,
                    round_num, conversation_history, guiVars, log_file, log_closed,
                    ghostVars, previous, iterations, call, returned >>

\* chat_gui.py 451
WorkerStore ==
    /\ WorkerAlive
    /\ wpc = "store"
    /\ result' = [result EXCEPT !.new_belief = worker_belief]
    /\ wpc' = "classify"
    /\ UNCHANGED << config, beliefs, rng, pc, error, iterVars, belief_changes, retVars,
                    round_num, conversation_history, worker_belief, guiVars, log_file,
                    log_closed, ghostVars, previous, iterations, call, returned >>

\* chat_gui.py 453-468
WorkerClassify ==
    /\ WorkerAlive
    /\ wpc = "classify"
    /\ LET change == DetermineChangeType(defender_belief, worker_belief)
       IN  /\ result' = [result EXCEPT !.change_type = change]
           /\ message_queue' = message_queue
                 \o << << "decision", << worker_belief, change >> >>, << "close", 5000 >> >>
    /\ wpc' = "done"
    /\ UNCHANGED << config, beliefs, rng, pc, error, iterVars, belief_changes, retVars,
                    round_num, conversation_history, worker_belief, rendered,
                    close_scheduled, log_file, log_closed, ghostVars, previous, iterations, call, returned >>

\* chat_gui.py 470-472: a backend call raised
WorkerFail ==
    /\ WorkerAlive
    /\ ConversationRunning
    /\ \E text \in ErrorTexts : result' = [result EXCEPT !.error = text]
    /\ message_queue' = Append(message_queue, << "close", 1000 >>)
    /\ wpc' = "done"
    /\ UNCHANGED << config, beliefs, rng, pc, error, iterVars, belief_changes, retVars,
                    round_num, conversation_history, worker_belief, rendered,
                    close_scheduled, log_file, log_closed, ghostVars, previous, iterations, call, returned >>

-----------------------------------------------------------------------------
(* The main thread inside run_conversation_with_gui.                        *)

\* chat_gui.py 268-289 _process_queue: take every queued event, in order
RECURSIVE Shown(_)
Shown(q) ==
    IF Len(q) = 0 THEN << >>
    ELSE (IF q[1][1] \in {"message", "decision"} THEN << q[1] >> ELSE << >>)
         \o Shown(Tail(q))

\* close requests left in the queue
HasClose_never(q) == FALSE

HasClose(q) == \E i \in 1..Len(q) : q[i][1] = "close"

ProcessQueue ==
    /\ pc = "mainloop"
    /\ Len(message_queue) > 0
    /\ rendered' = rendered \o Shown(message_queue)
    /\ close_scheduled' = (close_scheduled \/ HasClose(message_queue))
    /\ message_queue' = << >>
    /\ UNCHANGED << config, beliefs, rng, pc, error, iterVars, belief_changes, retVars,
                    workerVars, log_file, log_closed, ghostVars, previous, iterations, call, returned >>

\* chat_gui.py 397-406 run_mainloop: mainloop has returned, the window is destroyed
\* and what it showed is gone
LeaveMainloop ==
    /\ pc' = "join"
    /\ rendered' = << >>
    /\ UNCHANGED << config, beliefs, rng, error, iterVars, belief_changes, retVars,
                    workerVars, message_queue, close_scheduled, log_file, log_closed,
                    ghostVars, previous, iterations, call, returned >>

\* chat_gui.py 379-383 _do_close, run by the timer that _schedule_close set
DoClose ==
    /\ pc = "mainloop"
    /\ close_scheduled
    /\ LeaveMainloop

\* the user closes the conversation window
UserClose ==
    /\ pc = "mainloop"
    /\ LeaveMainloop

\* bool(result["error"])
Truthy(text) == text \notin {"None", ""}

\* chat_gui.py 482-487: join(timeout=1.0) ends with the worker or with the timeout,
\* then result["error"] and result["history"] are read
JoinWorker ==
    /\ pc = "join"
    /\ IF Truthy(result.error)
       THEN /\ Raise("RuntimeError")
            /\ UNCHANGED conversation
       ELSE /\ conversation' = result.history
            /\ pc' = "return_belief"
            /\ error' = "none"
    /\ UNCHANGED << config, beliefs, rng, iterVars, belief_changes, new_belief,
                    change_type, workerVars, guiVars, log_file, log_closed, ghostVars,
                    previous, iterations, call, returned >>

\* chat_gui.py 487: result["new_belief"] is read
ReadNewBelief ==
    /\ pc = "return_belief"
    /\ new_belief' = result.new_belief
    /\ pc' = "return_change"
    /\ UNCHANGED << config, beliefs, rng, error, iterVars, belief_changes, conversation,
                    change_type, workerVars, guiVars, log_file, log_closed, ghostVars,
                    previous, iterations, call, returned >>

\* result["change_type"] of a dict in which the worker has or has not set the key
ResultChangeType_defaulted(res) ==
    IF res.change_type = "<missing>" THEN [ok |-> TRUE, value |-> "unchanged"]
    ELSE [ok |-> TRUE, value |-> res.change_type]

ResultChangeType(res) ==
    IF res.change_type = "<missing>" THEN [ok |-> FALSE, value |-> "none"]
    ELSE [ok |-> TRUE, value |-> res.change_type]

\* chat_gui.py 487: result["change_type"] is read and the call returns; the
\* window and the thread object are dropped with the frame
Return ==
    /\ pc = "return_change"
    /\ LET got == ResultChangeType(result)
       IN  IF ~got.ok
           THEN /\ Raise("KeyError")
                /\ UNCHANGED << change_type, guiVars, workerVars >>
           ELSE /\ change_type' = got.value
                /\ pc' = "returned"
                /\ error' = "none"
                /\ IF wpc = "done"
                   THEN /\ message_queue' = << >>
                        /\ rendered' = << >>
                        /\ close_scheduled' = FALSE
                        /\ wpc' = "idle"
                        /\ round_num' = 0
                        /\ conversation_history' = << >>
                        /\ worker_belief' = None
                        /\ result' = NoResult
                   ELSE UNCHANGED << guiVars, workerVars >>
    /\ UNCHANGED << config, beliefs, rng, iterVars, belief_changes, conversation,
                    new_belief, log_file, log_closed, ghostVars, previous, iterations, call, returned >>

-----------------------------------------------------------------------------
(* simulation.py 308-358: the rest of the loop body and the end of the run. *)

\* the conversation is printed, the decision is not logged
RecordDecision_unlogged ==
    /\ pc = "returned"
    /\ IF conversation = None \/ new_belief = None
       THEN /\ Raise("TypeError")
       ELSE /\ pc' = "apply"
            /\ error' = "none"
    /\ UNCHANGED << config, beliefs, rng, iterVars, belief_changes, retVars, workerVars,
                    guiVars, log_file, log_closed, ghostVars, previous, iterations, call,
                    returned >>

\* lines 308-323: the conversation is printed and the decision logged
RecordDecision ==
    /\ pc = "returned"
    /\ IF conversation = None \/ new_belief = None
       THEN /\ Raise("TypeError")
            /\ UNCHANGED log_file
       ELSE /\ log_file' = log_file \o LogDecision(defender_belief, new_belief, change_type)
            /\ pc' = "apply"
            /\ error' = "none"
    /\ UNCHANGED << config, beliefs, rng, iterVars, belief_changes, retVars, workerVars,
                    guiVars, log_closed, ghostVars, previous, iterations, call, returned >>

\* line 326
Apply ==
    /\ pc = "apply"
    /\ beliefs' = SetBelief(beliefs, defender_id, new_belief)
    /\ pc' = "count"
    /\ UNCHANGED << config, rng, error, iterVars, belief_changes, retVars, workerVars,
                    guiVars, log_file, log_closed, ghostVars, previous, iterations, call, returned >>

\* lines 331-337
CountChange_similar(changes, change) ==
    IF change \in {"changed", "similar"} THEN changes + 1 ELSE changes

CountChange(changes, change) == IF change = "changed" THEN changes + 1 ELSE changes

Count ==
    /\ pc = "count"
    /\ belief_changes' = CountChange(belief_changes, change_type)
    /\ completed' = Append(completed,
          [iteration |-> iteration, persuader_id |-> persuader_id,
           defender_id |-> defender_id, old_belief |-> defender_belief,
           new_belief |-> new_belief, change_type |-> change_type])
    /\ pc' = "loop"
    /\ UNCHANGED << config, beliefs, rng, error, iterVars, retVars, workerVars, guiVars,
                    log_file, log_closed, start_beliefs, pairs, previous, iterations, call, returned >>

\* lines 341-358: the loop is over
Summarize ==
    /\ pc = "loop"
    /\ ~LoopContinues(iteration, SIMULATION_ITERATIONS)
    /\ log_file' = log_file \o LogFinalGridFromLayout(layout_type, size, beliefs)
                            \o LogSummary(SIMULATION_ITERATIONS, belief_changes)
    /\ log_closed' = TRUE
    /\ pc' = "done"
    /\ UNCHANGED << config, beliefs, rng, error, iterVars, belief_changes, retVars,
                    workerVars, guiVars, ghostVars, previous, iterations, call, returned >>

Next ==
    \/ Setup
    \/ StartIteration
    \/ WorkerPersuader
    \/ WorkerDefender
    \/ WorkerFinal
    \/ WorkerStore
    \/ WorkerClassify
    \/ WorkerFail
    \/ ProcessQueue
    \/ DoClose
    \/ UserClose
    \/ JoinWorker
    \/ ReadNewBelief
    \/ Return
    \/ RecordDecision
    \/ Apply
    \/ Count
    \/ Summarize

Spec == Init /\ [][Next]_vars

\* lines 374-375: after a run that reached its end, the program is run again with
\* the same configuration and belief file
Rerun ==
    /\ pc = "done"
    /\ ~previous.ran
    /\ previous' = [ran |-> TRUE, start |-> start_beliefs, pairs |-> pairs,
                    final |-> beliefs]
    /\ pc' = "start"
    /\ beliefs' = << >> /\ rng' = 0 /\ error' = "none" /\ belief_changes' = 0
    /\ agent_id' = NoId /\ neighbor_id' = NoId
    /\ iteration' = 0
    /\ persuader_id' = NoId /\ defender_id' = NoId
    /\ persuader_belief' = None /\ defender_belief' = None
    /\ conversation' = None /\ new_belief' = None /\ change_type' = "none"
    /\ wpc' = "idle" /\ round_num' = 0 /\ conversation_history' = << >>
    /\ worker_belief' = None /\ result' = NoResult
    /\ message_queue' = << >> /\ rendered' = << >> /\ close_scheduled' = FALSE
    /\ log_file' = << >> /\ log_closed' = FALSE
    /\ start_beliefs' = << >> /\ pairs' = << >> /\ completed' = << >>
    /\ UNCHANGED << config, iterations, call, returned >>

SpecTwice == Init /\ [][Next \/ Rerun]_vars

-----------------------------------------------------------------------------
(* The change classification on its own: every pair of texts of the bounded *)
(* set is classified once.                                                  *)

Alphabet == {"i", "I", "x", " "}

\* the texts over a set of characters with up to n characters
TextsUpTo(chars, n) == UNION {[1..k -> chars] : k \in 0..n}

Padding(k) == [i \in 1..k |-> "p"]

\* short texts, and texts that reach the first character after the prefix, with
\* and without leading whitespace
ClassifyInputs ==
    { lead \o Padding(k) \o w :
        lead \in {<< >>, << " " >>}, k \in {0, PrefixLen - 1}, w \in TextsUpTo(Alphabet, MaxLen) }

\* the configuration of the checks that run no simulation
OneConfig ==
    /\ layout_type = "ring" /\ size = 0 /\ n_agents = 2
    /\ catalog = << BeliefSave, BeliefSpend >>
    /\ RANDOM_SEED = NoSeed
    /\ CONVERSATION_ROUNDS = 1
    /\ SIMULATION_ITERATIONS = 1
    /\ previous = NoRun
    /\ iterations = << >>
    /\ call = NoCall /\ returned = NoReturn
    /\ FreshEngine

InitClassify ==
    /\ OneConfig
    /\ pc = "classify"
    /\ iteration = 0
    /\ persuader_id = NoId /\ defender_id = NoId
    /\ persuader_belief = None
    /\ conversation = None
    /\ log_file = << >>
    /\ change_type = "none"
    /\ defender_belief \in ClassifyInputs
    /\ new_belief \in ClassifyInputs

\* chat_gui.py 453-464 applied to (defender_belief, new_belief)
ClassifyStep ==
    /\ pc = "classify"
    /\ change_type' = DetermineChangeType(defender_belief, new_belief)
    /\ pc' = "classified"
    /\ UNCHANGED << config, beliefs, rng, error, iterVars, belief_changes, conversation,
                    new_belief, workerVars, guiVars, log_file, log_closed, ghostVars,
                    previous, iterations, call, returned >>

SpecClassify == InitClassify /\ [][ClassifyStep]_vars

\* the rule of the claim: trim and lowercase, then compare; else compare the
\* first PrefixLen characters of the untrimmed texts, lowercased
Normalized(s) == Lower(Strip(s))

SamePrefix(a, b) ==
    \A i \in 1..PrefixLen :
        /\ (i <= Len(a)) <=> (i <= Len(b))
        /\ (i <= Len(a)) => LowerChar(a[i]) = LowerChar(b[i])

ReferenceClass(old_belief, new) ==
    IF Normalized(old_belief) = Normalized(new) THEN "unchanged"
    ELSE IF SamePrefix(old_belief, new) THEN "similar"
    ELSE "changed"

\* C8: for every pair (old belief, new belief) the classification computed by the
\* worker is the one of the reference rule, and it is one of the three labels.
C8_ClassifierMatchesRule ==
    pc = "classified" =>
        /\ change_type = ReferenceClass(defender_belief, new_belief)
        /\ change_type \in {"unchanged", "similar", "changed"}

\* a pair longer than the prefix, with leading whitespace on one side, classified similar
C8_Witness ==
    /\ pc = "classified"
    /\ change_type = "similar"
    /\ Len(defender_belief) > PrefixLen
    /\ defender_belief[1] = " "
    /\ Strip(new_belief) # new_belief

-----------------------------------------------------------------------------
(* Properties of the engine.                                                *)

Range(f) == {f[i] : i \in DOMAIN f}

\* the DECISION sections written to the log so far
DecisionsLogged == Cardinality({i \in DOMAIN log_file : log_file[i] = "DECISION"})

\* C1: a second run with the same seed, belief file and layout starts from the same
\* belief assignment and selects the same (persuader, defender) at every iteration
\* both runs reach.
C1_SameSeedSameRun ==
    (previous.ran /\ RANDOM_SEED # NoSeed) =>
        /\ pc \notin {"start"} /\ error # "ValueError" => start_beliefs = previous.start
        /\ \A i \in 1..PyMin(Len(pairs), Len(previous.pairs)) : pairs[i] = previous.pairs[i]

\* the second seeded run has selected its last pair, after a first run that did too
C1_Witness ==
    /\ previous.ran /\ RANDOM_SEED # NoSeed
    /\ Len(previous.pairs) = MaxIterations
    /\ Len(pairs) = MaxIterations
    /\ Len(start_beliefs) >= 2
    /\ pairs[1] # pairs[2]

\* the ids of the agents of the layout
AgentIds == 0..(n_agents - 1)

\* C2: the step that starts an iteration draws the agent id from the generator
\* state it finds, the neighbor from the next state, the role from the one after,
\* and leaves the generator three states on; a role draw below one half makes
\* (agent, neighbor) the (persuader, defender), otherwise the reverse; persuader
\* and defender are adjacent in the layout.
C2_DrawOrderAndAdjacency ==
    [][(pc = "loop" /\ pc' = "mainloop") =>
          LET agent == RandBelow(rng, n_agents)
              neighbors == GetNeighbors(layout_type, size, n_agents, agent)
              neighbor == neighbors[RandBelow(NextRandom(rng), Len(neighbors)) + 1]
              role == RandomBelowHalf(NextRandom(NextRandom(rng)))
          IN  /\ agent_id' = agent
              /\ neighbor_id' = neighbor
              /\ role => persuader_id' = agent /\ defender_id' = neighbor
              /\ ~role => persuader_id' = neighbor /\ defender_id' = agent
              /\ rng' = NextRandom(NextRandom(NextRandom(rng)))
              /\ defender_id' \in Range(GetNeighbors(layout_type, size, n_agents, persuader_id'))
              /\ persuader_id' \in Range(GetNeighbors(layout_type, size, n_agents, defender_id'))
      ]_vars

\* the second iteration has selected its pair, with the roles reversed
C2_Witness ==
    /\ pc = "mainloop"
    /\ iteration = 2
    /\ agent_id # neighbor_id
    /\ persuader_id = neighbor_id
    /\ defender_id = agent_id

\* C3: after the initial assignment the stored beliefs change only in the step
\* that applies a decision; that step stores the returned belief for the defender
\* and leaves the belief of every other agent, the persuader included, as it was.
C3_OnlyDefenderChanges ==
    [][pc # "start" =>
          /\ beliefs' # beliefs => pc = "apply"
          /\ (pc = "apply" /\ pc' = "count") =>
                /\ Len(beliefs') = Len(beliefs)
                /\ GetBelief(beliefs', defender_id) = new_belief
                /\ \A a \in AgentIds \ {defender_id} :
                      GetBelief(beliefs', a) = GetBelief(beliefs, a)
      ]_vars

\* a decision that changes the defender's belief has been applied, and the
\* persuader, another agent, still holds the belief it argued for
C3_Witness ==
    /\ pc = "count"
    /\ persuader_id # defender_id
    /\ new_belief # defender_belief
    /\ GetBelief(beliefs, defender_id) = new_belief
    /\ GetBelief(beliefs, persuader_id) = persuader_belief
    /\ persuader_belief # new_belief

\* the conversation function of the current iteration has raised
ConversationFailed == result.error # "None"

ChangedIterations == {i \in DOMAIN completed : completed[i].change_type = "changed"}

\* C5: the change counter is the number of completed iterations classified
\* `changed`, so it is at most the number of completed iterations.
C5_CounterCountsChanged ==
    /\ belief_changes = Cardinality(ChangedIterations)
    /\ belief_changes <= Len(completed)

\* a run with one iteration classified similar and one classified changed
C5_Witness ==
    /\ Len(completed) = 2
    /\ completed[1].change_type = "similar"
    /\ completed[2].change_type = "changed"
    /\ belief_changes = 1

\* the iterations of a run are numbered 1, 2, ... in the order they complete, and a
\* run that reaches its end has completed SIMULATION_ITERATIONS of them
IterationsInOrder ==
    /\ Len(completed') <= SIMULATION_ITERATIONS
    /\ \A i \in DOMAIN completed' : completed'[i].iteration = i
    /\ pc' = "done" => Len(completed') = SIMULATION_ITERATIONS
    /\ (pc = "loop" /\ pc' = "done") => iteration = SIMULATION_ITERATIONS
    /\ (pc = "loop" /\ pc' = "mainloop") => iteration' = Len(completed) + 1

C7_NoOverlap ==
    /\ pc \in {"returned", "apply", "count", "loop", "done"} => ~ConversationRunning
    /\ pc \in {"returned", "apply", "count", "loop", "done"} => wpc = "idle"

\* the window was closed and the join ended before the conversation function had
\* returned, and the call returned normally after the worker had finished
C7_Witness ==
    /\ pc = "returned"
    /\ conversation = None
    /\ new_belief # None
    /\ wpc = "idle"

\* every completed iteration got the defender's belief back verbatim
EchoRun == \A i \in DOMAIN completed : completed[i].new_belief = completed[i].old_belief

\* C9: in a run whose conversations all return the defender's belief verbatim,
\* every completed iteration is classified unchanged, the change counter is 0 and,
\* between iterations and at the end, every agent holds its starting belief.
C9_EchoChangesNothing ==
    EchoRun =>
        /\ \A i \in DOMAIN completed : completed[i].change_type = "unchanged"
        /\ belief_changes = 0
        /\ pc \in {"loop", "done"} => beliefs = start_beliefs

\* a run of MaxIterations echo iterations over at least two agents has ended
C9_Witness ==
    /\ pc = "done"
    /\ EchoRun
    /\ Len(completed) = MaxIterations
    /\ Len(beliefs) >= 2
    /\ beliefs = start_beliefs
    /\ \E i \in DOMAIN completed : completed[i].old_belief = BeliefSave

-----------------------------------------------------------------------------
(* replay_chat.py parse_log_file.  The regular expressions are matched as   *)
(* Python's re module matches them: the leftmost start wins, a lazy group   *)
(* takes the shortest text for which the rest matches, a greedy one the     *)
(* longest.  A literal of a pattern is the sequence of lexemes it spells.   *)

\* \Z: matches at the end of the text only
EndOfText == "\\Z"

\* the letters of the texts of this model
Letters ==
    { "I", "S", "Z", "a", "d", "e", "f", "h", "i", "l", "m", "n", "o", "p", "r", "s",
      "t", "v", "x", "y", "z" }

\* the lexemes made of letters only
Words ==
    { "ITERATION", "PERSUADER", "DEFENDER", "CONVERSATION", "DECISION", "UNCHANGED",
      "SIMILAR", "CHANGED", "persuader", "defender", "unchanged", "similar", "changed" }

\* \d and \w
InClass(kind, c) ==
    CASE kind = "digits" -> IsDigit(c)
      [] kind = "word" -> IsDigit(c) \/ c \in Letters \/ c \in Words

\* the items of a pattern
Lit(s) == [kind |-> "lit", arg |-> s, cap |-> FALSE]                \* literal text
Greedy(kind) == [kind |-> kind, arg |-> 1, cap |-> TRUE]            \* (\d+), (\w+)
Lazy(least, cap) == [kind |-> "lazy", arg |-> least, cap |-> cap]   \* .*?, .+?, (.+?)
Alt(alts) == [kind |-> "alt", arg |-> alts, cap |-> TRUE]           \* (A|B)
Ahead(alts) == [kind |-> "ahead", arg |-> alts, cap |-> FALSE]      \* (?=A|B)

\* the literal s stands in text at position i
LitAt(text, i, s) ==
    IF s = << EndOfText >> THEN i = Len(text) + 1
    ELSE /\ i + Len(s) - 1 <= Len(text)
         /\ \A j \in 1..Len(s) : text[i + j - 1] = s[j]

\* the length of the run of lexemes of a class from position i
RECURSIVE RunLength(_, _, _)
RunLength(text, i, kind) ==
    IF i <= Len(text) /\ InClass(kind, text[i]) THEN 1 + RunLength(text, i + 1, kind)
    ELSE 0

NoMatch == [ok |-> FALSE, start |-> 0, end |-> 0, caps |-> << >>]

\* from, from + 1, ..., to
Span(from, to) == [k \in 1..(to - from + 1) |-> from + k - 1]

\* a necessary condition for the items q.. of pat to match at position j: where
\* item q is literal text, one of its literals begins at j
CanStart(text, j, pat, q) ==
    IF q > Len(pat) THEN TRUE
    ELSE CASE pat[q].kind = "lit" -> j <= Len(text) /\ text[j] = pat[q].arg[1]
           [] pat[q].kind \in {"ahead", "alt"} ->
                 \E k \in 1..Len(pat[q].arg) :
                     IF pat[q].arg[k] = << EndOfText >> THEN j = Len(text) + 1
                     ELSE j <= Len(text) /\ text[j] = pat[q].arg[k][1]
           [] OTHER -> TRUE

\* the items p.. of pat matched from position i, with the groups closed so far;
\* `end` is the position after the match.  A lazy repetition takes the least
\* number of lexemes for which the rest matches, a greedy one the most, an
\* alternation its first alternative for which the rest matches.
RECURSIVE MatchFrom(_, _, _, _, _)
MatchFrom(text, i, pat, p, caps) ==
    IF p > Len(pat) THEN [ok |-> TRUE, start |-> 0, end |-> i, caps |-> caps]
    ELSE LET item == pat[p]
             Taking(len) ==
                 MatchFrom(text, i + len, pat, p + 1,
                           IF item.cap THEN Append(caps, SubSeq(text, i, i + len - 1))
                           ELSE caps)
             Fits(len) == CanStart(text, i + len, pat, p + 1) /\ Taking(len).ok
             FitsAlt(k) == LitAt(text, i, item.arg[k]) /\ Taking(Len(item.arg[k])).ok
         IN  CASE item.kind = "lit" ->
                     IF LitAt(text, i, item.arg) THEN Taking(Len(item.arg)) ELSE NoMatch
               [] item.kind = "ahead" ->
                     IF \E k \in 1..Len(item.arg) : LitAt(text, i, item.arg[k])
                     THEN Taking(0) ELSE NoMatch
               [] item.kind = "alt" ->
                     LET fit == SelectSeq(Span(1, Len(item.arg)), FitsAlt)
                     IN  IF Len(fit) = 0 THEN NoMatch ELSE Taking(Len(item.arg[fit[1]]))
               [] item.kind = "lazy" ->
                     LET fit == SelectSeq(Span(item.arg, Len(text) - i + 1), Fits)
                     IN  IF Len(fit) = 0 THEN NoMatch ELSE Taking(fit[1])
               [] item.kind \in {"digits", "word"} ->
                     LET fit == SelectSeq(Span(item.arg, RunLength(text, i, item.kind)), Fits)
                     IN  IF Len(fit) = 0 THEN NoMatch ELSE Taking(fit[Len(fit)])

\* re.search from position i: the leftmost match
Search(text, pat, i) ==
    LET MatchesAt(j) == CanStart(text, j, pat, 1) /\ MatchFrom(text, j, pat, 1, << >>).ok
        starts == SelectSeq(Span(i, Len(text) + 1), MatchesAt)
    IN  IF Len(starts) = 0 THEN NoMatch
        ELSE [MatchFrom(text, starts[1], pat, 1, << >>) EXCEPT !.start = starts[1]]

\* re.finditer: the matches from left to right, none overlapping
RECURSIVE FindIter(_, _, _)
FindIter(text, pat, i) ==
    LET r == Search(text, pat, i)
    IN  IF ~r.ok THEN << >>
        ELSE << r >> \o FindIter(text, pat, IF r.end = r.start THEN r.end + 1 ELSE r.end)

\* r"={80}\nITERATION (\d+)/(\d+)\n.*?(?=={80}\nITERATION|\Z|={80}\nFINAL GRID)"
IterationPattern ==
    << Lit(<< Rule80, NL, "ITERATION", " " >>), Greedy("digits"), Lit(<< "/" >>),
       Greedy("digits"), Lit(<< NL >>), Lazy(0, FALSE),
       Ahead(<< << Rule80, NL, "ITERATION" >>, << EndOfText >>,
                << Rule80, NL, "FINAL GRID" >> >>) >>

\* r"PERSUADER: Agent (\d+) @ .+?\nBelief: (.+?)(?=\n\nDEFENDER:)"
PersuaderPattern ==
    << Lit(<< "PERSUADER", ":", " Agent " >>), Greedy("digits"), Lit(<< " @ " >>),
       Lazy(1, FALSE), Lit(<< NL, "Belief: " >>), Lazy(1, TRUE),
       Ahead(<< << NL, NL, "DEFENDER", ":" >> >>) >>

\* r"DEFENDER: Agent (\d+) @ .+?\nBelief: (.+?)(?=\n\n-{40})"
DefenderPattern ==
    << Lit(<< "DEFENDER", ":", " Agent " >>), Greedy("digits"), Lit(<< " @ " >>),
       Lazy(1, FALSE), Lit(<< NL, "Belief: " >>), Lazy(1, TRUE),
       Ahead(<< << NL, NL, Rule40 >> >>) >>

\* r"\[Round (\d+)\] (PERSUADER|DEFENDER):\n(.+?)(?=\[Round|\n-{40}\nDECISION)"
MessagePattern ==
    << Lit(<< "[Round", " " >>), Greedy("digits"), Lit(<< "]", " " >>),
       Alt(<< << "PERSUADER" >>, << "DEFENDER" >> >>), Lit(<< ":", NL >>), Lazy(1, TRUE),
       Ahead(<< << "[Round" >>, << NL, Rule40, NL, "DECISION" >> >>) >>

\* r"DECISION\n-{40}\nOld belief: (.+?)\n\nNew belief: (.+?)\n\nChange type: (\w+)"
DecisionPattern ==
    << Lit(<< "DECISION", NL, Rule40, NL, "Old belief: " >>), Lazy(1, TRUE),
       Lit(<< NL, NL, "New belief: " >>), Lazy(1, TRUE),
       Lit(<< NL, NL, "Change type: " >>), Greedy("word") >>

\* lines 56-66: one entry of `messages`
ParseMessage(m) ==
    [round |-> TextToInt(m.caps[1]), speaker |-> Lower(m.caps[2])[1],
     content |-> Strip(m.caps[3])]

\* lines 33-92: the body of the loop over the iteration blocks; ok is FALSE where
\* the loop continues without an entry
ParseIteration(iteration_text) ==
    LET persuader_match == Search(iteration_text, PersuaderPattern, 1)
        defender_match == Search(iteration_text, DefenderPattern, 1)
        message_matches == FindIter(iteration_text, MessagePattern, 1)
        decision_match == Search(iteration_text, DecisionPattern, 1)
    IN  IF ~persuader_match.ok \/ ~defender_match.ok THEN [ok |-> FALSE]
        ELSE LET d_belief == Strip(defender_match.caps[2])
             IN  [ok |-> TRUE,
                  value |->
                     [persuader_id |-> TextToInt(persuader_match.caps[1]),
                      defender_id |-> TextToInt(defender_match.caps[1]),
                      persuader_belief |-> Strip(persuader_match.caps[2]),
                      defender_belief |-> d_belief,
                      messages |-> [k \in 1..Len(message_matches) |->
                                       ParseMessage(message_matches[k])],
                      old_belief |-> IF decision_match.ok
                                     THEN Strip(decision_match.caps[1]) ELSE d_belief,
                      new_belief |-> IF decision_match.ok
                                     THEN Strip(decision_match.caps[2]) ELSE d_belief,
                      change_type |-> IF decision_match.ok
                                      THEN Lower(Strip(decision_match.caps[3]))
                                      ELSE << "unchanged" >>]]

\* lines 29-92: the dict built over the iteration blocks, a later block with the
\* number of an earlier one replacing it
RECURSIVE ParseBlocks(_, _, _, _)
ParseBlocks(content, matches, k, dict) ==
    IF k > Len(matches) THEN dict
    ELSE LET match == matches[k]
             iteration_num == TextToInt(match.caps[1])
             parsed == ParseIteration(SubSeq(content, match.start, match.end - 1))
         IN  ParseBlocks(content, matches, k + 1,
                         IF parsed.ok
                         THEN [n \in DOMAIN dict \cup {iteration_num} |->
                                  IF n = iteration_num THEN parsed.value ELSE dict[n]]
                         ELSE dict)

\* parse_log_file(log_path), on the text of the file
ParseLogFile(content) ==
    ParseBlocks(content, FindIter(content, IterationPattern, 1), 1, << >>)

-----------------------------------------------------------------------------
(* The log of one iteration written call by call (simulation.py 280-323,    *)
(* 356-358) and read back by parse_log_file.                                *)

\* the characters of a message: a letter, a line break, and the text "[Round"
LogAlphabet == {"h", NL, "[Round"}

\* message texts of a backend reply, which the engine logs as it gets them
MessageTexts == TextsUpTo(LogAlphabet, MaxLen)

LogAgents == 3
LogTotal == 10

\* the logged iteration: its number and its (persuader id, defender id)
LogCases == { << 1, 0, 1 >>, << LogTotal, 2, 0 >> }

InitLog ==
    /\ layout_type = "ring" /\ size = 0 /\ n_agents = LogAgents
    /\ catalog = << BeliefSave, BeliefSpend >>
    /\ RANDOM_SEED = NoSeed
    /\ CONVERSATION_ROUNDS = 1
    /\ SIMULATION_ITERATIONS = LogTotal
    /\ previous = NoRun
    /\ iterations = << >>
    /\ call = NoCall /\ returned = NoReturn
    /\ rng = 0 /\ error = "none" /\ belief_changes = 0
    /\ agent_id = NoId /\ neighbor_id = NoId
    /\ wpc = "idle" /\ round_num = 0 /\ conversation_history = << >>
    /\ worker_belief = None /\ result = NoResult
    /\ message_queue = << >> /\ rendered = << >> /\ close_scheduled = FALSE
    /\ log_closed = FALSE
    /\ pairs = << >> /\ completed = << >>
    /\ conversation = None /\ new_belief = None /\ change_type = "none"
    /\ pc = "log_start"
    /\ log_file = WriteHeader
    /\ \E case \in LogCases :
          /\ iteration = case[1]
          /\ persuader_id = case[2]
          /\ defender_id = case[3]
          /\ beliefs = [i \in 1..LogAgents |->
                           IF i = case[3] + 1 THEN BeliefSave ELSE BeliefSpend]
          /\ start_beliefs = beliefs
          /\ persuader_belief = GetBelief(beliefs, case[2])
          /\ defender_belief = GetBelief(beliefs, case[3])

\* simulation.py 280-285
WriteIterationStart ==
    /\ pc = "log_start"
    /\ log_file' = log_file \o LogIterationStart(
           iteration, SIMULATION_ITERATIONS,
           persuader_id, GetPositionLabel(layout_type, size, persuader_id),
           defender_id, GetPositionLabel(layout_type, size, defender_id),
           persuader_belief, defender_belief)
    /\ pc' = "log_persuader"
    /\ UNCHANGED << config, beliefs, rng, error, iterVars, belief_changes, retVars,
                    workerVars, guiVars, log_closed, ghostVars, previous, iterations, call, returned >>

\* simulation.py 76-91: the persuader's message is appended to the history and logged
WritePersuaderMessage ==
    /\ pc = "log_persuader"
    /\ \E text \in MessageTexts :
          /\ conversation_history' =
                Append(conversation_history, Entry(round_num + 1, "persuader", text))
          /\ log_file' = log_file \o LogMessage("persuader", round_num + 1, text)
    /\ pc' = "log_defender"
    /\ UNCHANGED << config, beliefs, rng, error, iterVars, belief_changes, retVars, wpc,
                    round_num, worker_belief, result, guiVars, log_closed, ghostVars,
                    previous, iterations, call, returned >>

\* simulation.py 101-116: the defender's message
WriteDefenderMessage ==
    /\ pc = "log_defender"
    /\ \E text \in MessageTexts :
          /\ conversation_history' =
                Append(conversation_history, Entry(round_num + 1, "defender", text))
          /\ log_file' = log_file \o LogMessage("defender", round_num + 1, text)
    /\ round_num' = round_num + 1
    /\ pc' = IF round_num + 1 < CONVERSATION_ROUNDS THEN "log_persuader" ELSE "log_decision"
    /\ UNCHANGED << config, beliefs, rng, error, iterVars, belief_changes, retVars, wpc,
                    worker_belief, result, guiVars, log_closed, ghostVars, previous,
                    iterations, call, returned >>

\* simulation.py 135-139, chat_gui.py 453-464, simulation.py 323: the decision is
\* taken, classified and logged
WriteDecision ==
    /\ pc = "log_decision"
    /\ \E reply \in FinalReplies(persuader_belief, defender_belief) :
          /\ conversation' = conversation_history
          /\ new_belief' = Strip(reply)
          /\ change_type' = DetermineChangeType(defender_belief, Strip(reply))
          /\ log_file' = log_file
                \o LogDecision(defender_belief, Strip(reply),
                               DetermineChangeType(defender_belief, Strip(reply)))
    /\ pc' = "logged"
    /\ UNCHANGED << config, beliefs, rng, error, iterVars, belief_changes, workerVars,
                    guiVars, log_closed, ghostVars, previous, iterations, call, returned >>

\* simulation.py 356-358: the final block and the summary, and the file is closed
WriteEnd ==
    /\ pc = "logged"
    /\ log_file' = log_file \o LogFinalGridFromLayout(layout_type, size, beliefs)
                            \o LogSummary(SIMULATION_ITERATIONS, belief_changes)
    /\ log_closed' = TRUE
    /\ pc' = "closed"
    /\ UNCHANGED << config, beliefs, rng, error, iterVars, belief_changes, retVars,
                    workerVars, guiVars, ghostVars, previous, iterations, call, returned >>

\* replay_chat.py 146: parse_log_file on the file as it stands
Replay ==
    /\ pc \in {"logged", "closed"}
    /\ iterations' = ParseLogFile(log_file)
    /\ pc' = "parsed"
    /\ UNCHANGED << config, beliefs, rng, error, iterVars, belief_changes, retVars,
                    workerVars, guiVars, log_file, log_closed, ghostVars, previous,
                    call, returned >>

\* replay_chat.py 146: parse_log_file on the log of a run that stopped inside the
\* conversation of the iteration, before simulation.py 323
ReplayAborted ==
    /\ pc \in {"log_persuader", "log_defender", "log_decision"}
    /\ iterations' = ParseLogFile(log_file)
    /\ pc' = "parsed_aborted"
    /\ UNCHANGED << config, beliefs, rng, error, iterVars, belief_changes, retVars,
                    workerVars, guiVars, log_file, log_closed, ghostVars, previous,
                    call, returned >>

NextLog ==
    \/ WriteIterationStart
    \/ WritePersuaderMessage
    \/ WriteDefenderMessage
    \/ WriteDecision
    \/ WriteEnd
    \/ Replay
    \/ ReplayAborted

SpecLog == InitLog /\ [][NextLog]_vars

\* C10 (round trip): what parse_log_file returns for the number of the logged
\* iteration has the ids, the two starting beliefs, the transcript entries (round,
\* speaker, text) in order and in number, and the decision triple that were logged.
C10_RoundTrip ==
    pc = "parsed" =>
        /\ iteration \in DOMAIN iterations
        /\ iterations[iteration].persuader_id = persuader_id
        /\ iterations[iteration].defender_id = defender_id
        /\ iterations[iteration].persuader_belief = persuader_belief
        /\ iterations[iteration].defender_belief = defender_belief
        /\ iterations[iteration].messages = conversation
        /\ iterations[iteration].old_belief = defender_belief
        /\ iterations[iteration].new_belief = new_belief
        /\ iterations[iteration].change_type = << change_type >>


-----------------------------------------------------------------------------
(* grid_layouts.py on its own: a layout is built, by its class or by        *)
(* create_layout, initialized from the catalog, and its methods are called. *)

\* the names create_layout is called with; it lowercases them
LayoutNames == LayoutTypes \cup {"STAR", "Grid4", "torus"}

\* the ids the methods are called with: every agent and two ids on either side
CallIds == (0 - 2)..(n_agents + 1)

\* the texts set_belief is called with
CallTexts == {BeliefSpend, << "x" >>}

\* `n_agents < 1` for `n_agents < 2`
Construct_starOfOne(type, n, g) ==
    CASE type \in {"grid4", "grid8"} -> [raised |-> "none", size |-> g, n_agents |-> g * g]
      [] type = "star" /\ n < 1      -> [raised |-> "ValueError", size |-> 0, n_agents |-> 0]
      [] OTHER                       -> [raised |-> "none", size |-> 0, n_agents |-> n]

\* __init__ of the five classes: the fields set, or the exception raised
\* ("Star layout requires at least 2 agents")
Construct(type, n, g) ==
    CASE type \in {"grid4", "grid8"} -> [raised |-> "none", size |-> g, n_agents |-> g * g]
      [] type = "star" /\ n < 2      -> [raised |-> "ValueError", size |-> 0, n_agents |-> 0]
      [] OTHER                       -> [raised |-> "none", size |-> 0, n_agents |-> n]

\* create_layout(layout_type, n_agents, grid_size)
CreateLayout(name, n, g) ==
    LET lowered == LowerChar(name)
    IN  IF lowered \in LayoutTypes
        THEN [type |-> lowered, made |-> Construct(lowered, n, g)]
        ELSE [type |-> "none",
              made |-> [raised |-> "ValueError", size |-> 0, n_agents |-> 0]]

\* get_neighbors as a call: the list returned, or the exception of `//` and `%`
\* by a size of 0
CallGetNeighbors(type, s, n, id) ==
    IF (type \in {"grid4", "grid8"} /\ s = 0) \/ (type = "ring" /\ n = 0)
    THEN [raised |-> "ZeroDivisionError", value |-> << >>]
    ELSE [raised |-> "none", value |-> GetNeighbors(type, s, n, id)]

\* beliefs[agent_id] of a Python list: a negative index counts from the end
ListIndex(bs, id) == IF id >= 0 THEN id + 1 ELSE Len(bs) + id + 1

\* get_belief as a call
CallGetBelief(bs, id) ==
    IF ListIndex(bs, id) \in 1..Len(bs)
    THEN [raised |-> "none", value |-> bs[ListIndex(bs, id)]]
    ELSE [raised |-> "IndexError", value |-> << >>]

\* the belief stored one place further
CallSetBelief_next(bs, id, belief) ==
    IF ListIndex(bs, id) \in 1..Len(bs)
    THEN [raised |-> "none",
          beliefs |-> [bs EXCEPT ![(ListIndex(bs, id) % Len(bs)) + 1] = belief]]
    ELSE [raised |-> "IndexError", beliefs |-> bs]

\* set_belief as a call: the list afterwards
CallSetBelief(bs, id, belief) ==
    IF ListIndex(bs, id) \in 1..Len(bs)
    THEN [raised |-> "none", beliefs |-> [bs EXCEPT ![ListIndex(bs, id)] = belief]]
    ELSE [raised |-> "IndexError", beliefs |-> bs]

\* print_layout_info: get_neighbors of every agent, in the order of the ids
NeighborTable(type, s, n) == [i \in 1..n |-> GetNeighbors(type, s, n, i - 1)]

InitLayout ==
    /\ layout_type = "none" /\ size = 0 /\ n_agents = 0
    /\ catalog \in Catalogs
    /\ RANDOM_SEED = NoSeed
    /\ CONVERSATION_ROUNDS = 1
    /\ SIMULATION_ITERATIONS = 1
    /\ previous = NoRun
    /\ iterations = << >>
    /\ call = NoCall /\ returned = NoReturn
    /\ beliefs = << >>
    /\ rng \in Entropy
    /\ error = "none" /\ belief_changes = 0
    /\ agent_id = NoId /\ neighbor_id = NoId
    /\ wpc = "idle" /\ round_num = 0 /\ conversation_history = << >>
    /\ worker_belief = None /\ result = NoResult
    /\ message_queue = << >> /\ rendered = << >> /\ close_scheduled = FALSE
    /\ log_closed = FALSE /\ log_file = << >>
    /\ start_beliefs = << >> /\ pairs = << >> /\ completed = << >>
    /\ conversation = None /\ new_belief = None /\ change_type = "none"
    /\ iteration = 0
    /\ persuader_id = NoId /\ defender_id = NoId
    /\ persuader_belief = None /\ defender_belief = None
    /\ pc = "create"

\* what no method of a layout touches
layoutIdle == << catalog, RANDOM_SEED, CONVERSATION_ROUNDS, SIMULATION_ITERATIONS, iterVars,
                belief_changes, retVars, workerVars, guiVars, log_file, log_closed, pairs,
                completed, previous, iterations >>

\* the layout, or the exception, that a construction leaves
Built(op, name, given, type, made) ==
    /\ call' = [op |-> op, arg |-> given, text |-> << name >>, nth |-> 0]
    /\ returned' = [raised |-> made.raised, value |-> << >>]
    /\ IF made.raised = "none"
       THEN /\ layout_type' = type
            /\ size' = made.size
            /\ n_agents' = made.n_agents
            /\ pc' = "created"
            /\ error' = "none"
       ELSE /\ Raise(made.raised)
            /\ UNCHANGED << layout_type, size, n_agents >>
    /\ UNCHANGED << beliefs, rng, start_beliefs, layoutIdle >>

\* Grid4Layout(g), Grid8Layout(g), RingLayout(n), MeshLayout(n), StarLayout(n)
NewLayout ==
    /\ pc = "create"
    /\ \E type \in LayoutTypes :
          \/ /\ type \in {"grid4", "grid8"}
             /\ \E g \in 0..MaxGridSide : Built("class", type, g, type, Construct(type, 0, g))
          \/ /\ type \notin {"grid4", "grid8"}
             /\ \E n \in 0..MaxNodes : Built("class", type, n, type, Construct(type, n, 0))

\* create_layout(name, grid_size=g) and create_layout(name, n_agents=n); the
\* parameter left out has its default
NewLayoutByName ==
    /\ pc = "create"
    /\ \E name \in LayoutNames :
          \/ \E g \in 0..MaxGridSide :
                /\ LowerChar(name) \in {"grid4", "grid8"}
                /\ Built("create_layout", name, g, CreateLayout(name, 9, g).type,
                         CreateLayout(name, 9, g).made)
          \/ \E n \in 0..MaxNodes :
                /\ LowerChar(name) \notin {"grid4", "grid8"}
                /\ Built("create_layout", name, n, CreateLayout(name, n, 3).type,
                         CreateLayout(name, n, 3).made)

\* layout.initialize(beliefs)
Initialize ==
    /\ pc = "created"
    /\ beliefs' = InitialBeliefs(catalog, n_agents, rng)
    /\ start_beliefs' = beliefs'
    /\ rng' = Advance(rng, n_agents)
    /\ call' = [op |-> "initialize", arg |-> NoId, text |-> None, nth |-> 0]
    /\ returned' = [raised |-> "none", value |-> beliefs']
    /\ pc' = "ready"
    /\ UNCHANGED << layout_type, size, n_agents, error, layoutIdle >>

\* one more method call on the layout
Calling(op, id, text) ==
    /\ pc \in {"created", "ready"}
    /\ call.nth < MaxCalls
    /\ call' = [op |-> op, arg |-> id, text |-> text, nth |-> call.nth + 1]
    /\ UNCHANGED << layout_type, size, n_agents, rng, pc, error, start_beliefs, layoutIdle >>

GetNeighborsCall ==
    \E id \in CallIds :
        /\ Calling("get_neighbors", id, None)
        /\ returned' = CallGetNeighbors(layout_type, size, n_agents, id)
        /\ UNCHANGED beliefs

PrintLayoutInfo ==
    /\ Calling("print_layout_info", NoId, None)
    /\ returned' = [raised |-> "none", value |-> NeighborTable(layout_type, size, n_agents)]
    /\ UNCHANGED beliefs

GetAgentCountCall ==
    /\ Calling("get_agent_count", NoId, None)
    /\ returned' = [raised |-> "none", value |-> << n_agents >>]
    /\ UNCHANGED beliefs

GetBeliefCall ==
    \E id \in CallIds :
        /\ Calling("get_belief", id, None)
        /\ returned' = CallGetBelief(beliefs, id)
        /\ UNCHANGED beliefs

SetBeliefCall ==
    \E id \in CallIds, text \in CallTexts :
        /\ Calling("set_belief", id, text)
        /\ beliefs' = CallSetBelief(beliefs, id, text).beliefs
        /\ returned' = [raised |-> CallSetBelief(beliefs, id, text).raised, value |-> << >>]

NextLayout ==
    \/ NewLayout
    \/ NewLayoutByName
    \/ Initialize
    \/ GetNeighborsCall
    \/ PrintLayoutInfo
    \/ GetAgentCountCall
    \/ GetBeliefCall
    \/ SetBeliefCall

SpecLayout == InitLayout /\ [][NextLayout]_vars


-----------------------------------------------------------------------------
(* Properties of the layouts.                                               *)

\* print_layout_info has just listed get_neighbors of every agent
TablePrinted == call.op = "print_layout_info"

\* the neighbors it listed for agent A
Listed(A) == Range(returned.value[A + 1])

\* C11: in every layout that was built, of each of the five classes and of every
\* size, adjacency is symmetric: B is listed for A exactly when A is listed for B.
C11_AdjacencySymmetric ==
    TablePrinted => \A A, B \in AgentIds : (B \in Listed(A)) <=> (A \in Listed(B))

\* a star of 5 agents: spoke 3 is listed for the hub and the hub for spoke 3
C11_Witness ==
    /\ TablePrinted
    /\ layout_type = "star" /\ n_agents = 5
    /\ 3 \in Listed(0) /\ 0 \in Listed(3)

\* C12: in every layout that was built, no agent is listed among its
\* own neighbors.
C12_NoSelfLoops ==
    TablePrinted => \A A \in AgentIds : A \notin Listed(A)

\* C13: in a layout built with at least 2 agents every agent has at least one
\* neighbor, so the neighbor draw of an iteration finds a list to choose from,
\* whatever the state of the generator.
C13_NeighborhoodNonEmpty ==
    (TablePrinted /\ n_agents >= 2) =>
        /\ \A A \in AgentIds : Len(returned.value[A + 1]) >= 1
        /\ \A s \in 0..15 : SelectPair(layout_type, size, n_agents, s).ok

\* a mesh of 2 agents: each has the other as its only neighbor
C13_Witness ==
    /\ TablePrinted
    /\ layout_type = "mesh" /\ n_agents = 2
    /\ returned.value = << << 1 >>, << 0 >> >>


\* C14: in a ring of 2 or more agents every agent has exactly 2
\* neighbors, (id-1) mod n and (id+1) mod n; in a ring of 6, agent 0 has {1, 5} and
\* agent 3 has {2, 4}.
C14_RingTwoNeighbors ==
    (TablePrinted /\ layout_type = "ring" /\ n_agents >= 2) =>
        /\ \A A \in AgentIds :
              /\ Listed(A) = {(A - 1) % n_agents, (A + 1) % n_agents}
              /\ Cardinality(Listed(A)) = 2
        /\ n_agents = 6 => (Listed(0) = {1, 5} /\ Listed(3) = {2, 4})

\* the cells of the grid and the row-major id of a cell
Cells == (0..(size - 1)) \X (0..(size - 1))
RowMajor(cell) == cell[1] * size + cell[2]
CellOf(A) == CHOOSE cell \in Cells : RowMajor(cell) = A

Distance(a, b) == IF a < b THEN b - a ELSE a - b

\* cells one orthogonal step apart / one orthogonal or diagonal step apart
Orthogonal(c, d) == Distance(c[1], d[1]) + Distance(c[2], d[2]) = 1
Touching(c, d) == c # d /\ Distance(c[1], d[1]) <= 1 /\ Distance(c[2], d[2]) <= 1

Corners == {0, 2, 6, 8}
Edges == {1, 3, 5, 7}
Interior == {4}

\* C15: on a grid the ids are the row-major numbers of the cells, one id per cell;
\* grid-4 lists for an agent exactly the cells one orthogonal step from its cell and
\* grid-8 exactly the cells one orthogonal or diagonal step from it, each once; on a
\* side of 3 that is 2 / 3 neighbors in a corner, 3 / 5 on an edge and 4 / 8 inside.
C15_GridNeighbors ==
    (TablePrinted /\ layout_type \in {"grid4", "grid8"}) =>
        /\ n_agents = Cardinality(Cells)
        /\ \A cell \in Cells :
              /\ PosToId(size, cell[1], cell[2]) = RowMajor(cell)
              /\ IdToPos(size, RowMajor(cell)) = cell
        /\ \A A \in AgentIds :
              /\ IdToPos(size, A) \in Cells
              /\ Len(returned.value[A + 1]) = Cardinality(Listed(A))
              /\ layout_type = "grid4" =>
                    Listed(A) = {RowMajor(d) : d \in {c \in Cells : Orthogonal(CellOf(A), c)}}
              /\ layout_type = "grid8" =>
                    Listed(A) = {RowMajor(d) : d \in {c \in Cells : Touching(CellOf(A), c)}}
        /\ size = 3 =>
              \A A \in AgentIds :
                 Len(returned.value[A + 1]) =
                    CASE A \in Corners  -> (IF layout_type = "grid4" THEN 2 ELSE 3)
                      [] A \in Edges    -> (IF layout_type = "grid4" THEN 3 ELSE 5)
                      [] A \in Interior -> (IF layout_type = "grid4" THEN 4 ELSE 8)

\* the table of a grid-8 of side 3: the cell in the middle has all 8 others
C15_Witness ==
    /\ TablePrinted
    /\ layout_type = "grid8" /\ size = 3
    /\ Listed(4) = {0, 1, 2, 3, 5, 6, 7, 8}
    /\ Len(returned.value[1]) = 3

\* C16: in a star the hub, agent 0, has exactly the agents 1..n-1 and every other
\* agent has exactly the hub; in a mesh every agent has exactly all the others.
C16_StarAndMesh ==
    /\ (TablePrinted /\ layout_type = "star") =>
          /\ Listed(0) = 1..(n_agents - 1)
          /\ Len(returned.value[1]) = n_agents - 1
          /\ \A k \in 1..(n_agents - 1) : returned.value[k + 1] = << 0 >>
    /\ (TablePrinted /\ layout_type = "mesh") =>
          \A k \in AgentIds :
             /\ Listed(k) = AgentIds \ {k}
             /\ Len(returned.value[k + 1]) = n_agents - 1

\* the table of a mesh of 4 agents
C16_Witness ==
    /\ TablePrinted
    /\ layout_type = "mesh" /\ n_agents = 4
    /\ Listed(2) = {0, 1, 3}


\* the last call built a layout, by its class or by create_layout
Constructing == call.op \in {"class", "create_layout"}

\* C17: get_neighbors called with an id that is not the id of an agent, negative
\* or agent_count and above, raises and returns no list (an exception of any kind
\* is taken for the out-of-range error).
C17_OutOfRangeRejected ==
    (call.op = "get_neighbors" /\ call.arg \notin AgentIds) =>
        /\ returned.raised # "none"
        /\ returned.value = << >>

\* C18: building a star with fewer than 2 agents, by StarLayout or by create_layout
\* under any spelling of 'star', raises ValueError and leaves no layout; with 2 or
\* more agents it leaves a star of that many agents.
C18_SmallStarRejected ==
    (Constructing /\ LowerChar(call.text[1]) = "star") =>
        IF call.arg < 2
        THEN /\ pc = "aborted" /\ error = "ValueError"
             /\ returned.raised = "ValueError"
             /\ layout_type = "none" /\ n_agents = 0
        ELSE /\ pc = "created" /\ error = "none"
             /\ returned.raised = "none"
             /\ layout_type = "star" /\ n_agents = call.arg

\* create_layout('STAR', n_agents=1) has raised ValueError
C18_Witness ==
    /\ call.op = "create_layout" /\ call.text = << "STAR" >> /\ call.arg = 1
    /\ pc = "aborted" /\ error = "ValueError"
    /\ layout_type = "none"


-----------------------------------------------------------------------------
(* One conversation on its own: the worker thread runs run_conversation with *)
(* the callback of the window, whose queue the main thread empties.          *)

InitConverse ==
    /\ layout_type = "ring" /\ size = 0 /\ n_agents = 2
    /\ catalog = << BeliefSave, BeliefSpend >>
    /\ RANDOM_SEED = NoSeed
    /\ CONVERSATION_ROUNDS \in 0..MaxTurns
    /\ SIMULATION_ITERATIONS = 1
    /\ previous = NoRun
    /\ iterations = << >>
    /\ call = NoCall /\ returned = NoReturn
    /\ beliefs = catalog /\ start_beliefs = catalog
    /\ rng = 0 /\ error = "none" /\ belief_changes = 0
    /\ iteration = 1
    /\ agent_id = 0 /\ neighbor_id = 1
    /\ \E p \in {0, 1} :
          /\ persuader_id = p /\ defender_id = 1 - p
          /\ persuader_belief = GetBelief(catalog, p)
          /\ defender_belief = GetBelief(catalog, 1 - p)
          /\ pairs = << << p, 1 - p >> >>
    /\ completed = << >>
    /\ conversation = None /\ new_belief = None /\ change_type = "none"
    /\ wpc = "persuader" /\ round_num = 0 /\ conversation_history = << >>
    /\ worker_belief = None /\ result = NoResult
    /\ message_queue = << >> /\ rendered = << >> /\ close_scheduled = FALSE
    /\ log_file = << >> /\ log_closed = FALSE
    /\ pc = "mainloop"

\* range(rounds) is empty: the loop body is skipped
WorkerSkipRounds ==
    /\ WorkerAlive
    /\ wpc = "persuader"
    /\ CONVERSATION_ROUNDS <= 0
    /\ wpc' = "final"
    /\ UNCHANGED << config, beliefs, rng, pc, error, iterVars, belief_changes, retVars,
                    round_num, conversation_history, worker_belief, result, guiVars,
                    log_file, log_closed, ghostVars, previous, iterations, call, returned >>

\* the first backend call of a round is made only inside the loop
WorkerPersuaderInLoop == CONVERSATION_ROUNDS > 0 /\ WorkerPersuader

NextConverse ==
    \/ WorkerSkipRounds
    \/ WorkerPersuaderInLoop
    \/ WorkerDefender
    \/ WorkerFinal
    \/ WorkerStore
    \/ WorkerClassify
    \/ WorkerFail
    \/ ProcessQueue

SpecConverse == InitConverse /\ [][NextConverse]_vars


IsMessage(event) == event[1] = "message"

\* the messages the callback was invoked with, in the order of the invocations:
\* those the window has shown, then those still in its queue
Streamed ==
    LET events == SelectSeq(rendered \o message_queue, IsMessage)
    IN  [i \in 1..Len(events) |-> events[i][2]]

\* the conversation function has returned its pair (transcript, new belief)
ConversationReturned == wpc \in {"store", "classify", "done"} /\ result.error = "None"

\* C20: the callback has been invoked once for each message produced so far, in the
\* order they were produced; when the conversation function has returned, the
\* transcript it returned is what was streamed, 2*rounds entries that alternate
\* persuader and defender with the round numbers 1..rounds, and the final decision
\* is the new belief returned, not an entry of the transcript.
C20_TranscriptAsStreamed ==
    /\ Streamed = conversation_history
    /\ ConversationReturned =>
          /\ result.history = Streamed
          /\ Len(result.history) = 2 * CONVERSATION_ROUNDS
          /\ \A i \in 1..Len(result.history) :
                /\ result.history[i].round = (i + 1) \div 2
                /\ result.history[i].speaker = IF i % 2 = 1 THEN "persuader" ELSE "defender"
                /\ result.history[i].content \in PersuaderTexts \cup DefenderTexts
          /\ worker_belief \in {Strip(r) : r \in FinalReplies(persuader_belief, defender_belief)}
          /\ wpc \in {"classify", "done"} => result.new_belief = worker_belief

\* a conversation of 3 rounds has returned: 6 messages were streamed, the window
\* has shown some of them and the decision is a new text
C20_Witness ==
    /\ ConversationReturned
    /\ CONVERSATION_ROUNDS = 3
    /\ Len(Streamed) = 6
    /\ Len(rendered) \in 1..5
    /\ result.history[6] = Entry(3, "defender", << "n", "o" >>)
    /\ result.new_belief \notin {persuader_belief, defender_belief, None}


-----------------------------------------------------------------------------
(* The log of a run of the engine, read back as text.                       *)

\* the places of a word in a text, and the j-th of them from the start
PlacesOf(text, word) == {i \in DOMAIN text : text[i] = word}

NthPlace(text, word, j) ==
    CHOOSE i \in PlacesOf(text, word) :
        Cardinality({h \in PlacesOf(text, word) : h < i}) = j - 1

\* text `part` stands in `text` from place `at` on
StandsAt(text, at, part) ==
    /\ at >= 1
    /\ at + Len(part) - 1 <= Len(text)
    /\ SubSeq(text, at, at + Len(part) - 1) = part

\* the record of the j-th iteration in a log: from the rule above its header to
\* the rule above the next header or above the final block, or to the end of
\* the log
RecordStart(text, j) == NthPlace(text, "ITERATION", j) - 2

RecordEnd(text, j) ==
    IF j < Cardinality(PlacesOf(text, "ITERATION"))
    THEN RecordStart(text, j + 1) - 1
    ELSE IF PlacesOf(text, "FINAL GRID") # {}
    THEN NthPlace(text, "FINAL GRID", 1) - 3
    ELSE Len(text)

RecordOf(text, j) == SubSeq(text, RecordStart(text, j), RecordEnd(text, j))

\* a text ends with another
EndsWith(text, part) ==
    Len(part) <= Len(text) /\ StandsAt(text, Len(text) - Len(part) + 1, part)

\* the head of the record of iteration j
HeaderHead(j, total) ==
    << Rule80, NL, "ITERATION", " " >> \o IntToText(j) \o << "/" >> \o IntToText(total)
    \o << NL >>

\* the record of a completed iteration is whole: it starts with the header of
\* that iteration and ends with the decision that was taken in it
RecordComplete(text, j) ==
    /\ j <= Cardinality(PlacesOf(text, "ITERATION"))
    /\ StandsAt(RecordOf(text, j), 1, HeaderHead(j, SIMULATION_ITERATIONS))
    /\ EndsWith(RecordOf(text, j),
                LogDecision(completed[j].old_belief, completed[j].new_belief,
                            completed[j].change_type))

\* the conversation of the current iteration failed and the failure has left
\* run_simulation
AbortedInConversation == pc = "aborted" /\ error = "RuntimeError" /\ iteration >= 1

\* C21: nothing written to the log is ever taken back, and in a run that aborts
\* because the conversation of iteration k failed the log holds the whole
\* records of iterations 1..k-1, each through its DECISION section, and no
\* SIMULATION SUMMARY block.
C21_AbortKeepsRecords ==
    [][ /\ (log_file # << >> => StandsAt(log_file', 1, log_file))
        /\ (AbortedInConversation' =>
              /\ Len(completed') = iteration' - 1
              /\ \A j \in 1..(iteration' - 1) : RecordComplete(log_file', j)
              /\ PlacesOf(log_file', "SIMULATION SUMMARY") = {}) ]_vars

\* a run that aborts in its second iteration, after a first one that was recorded
C21_Witness ==
    /\ AbortedInConversation
    /\ iteration = 2
    /\ Len(completed) = 1
    /\ RecordComplete(log_file, 1)
    /\ ~log_closed

\* the log file has been opened: SimulationLogger() has run
LogOpened == log_file # << >>

\* run_simulation has been left, by its last statement or by the exception that
\* run_conversation_with_gui raised
RunLeft == pc = "done" \/ (pc = "aborted" /\ error = "RuntimeError")

\* C22: the log sink opened at the start of a run is closed on every exit path
\* of the run: whenever run_simulation has been left, by normal completion or
\* by an error propagated from the conversation step, the log file is closed.
C22_ClosedOnEveryExit == (LogOpened /\ RunLeft) => log_closed

\* the place of the last FINAL GRID heading and of the last SIMULATION SUMMARY
\* heading of the log (0 without one)
LastPlace(text, word) ==
    IF PlacesOf(text, word) = {} THEN 0
    ELSE CHOOSE i \in PlacesOf(text, word) : \A h \in PlacesOf(text, word) : h <= i

\* the entry of one agent in a block of beliefs
AgentEntry(id, belief) ==
    << "Agent " >> \o IntToText(id) \o << " @ " >>
    \o GetPositionLabel(layout_type, size, id) \o << ":", NL, "  " >> \o belief
    \o << NL, NL >>

\* the places of the entries of agent `id` between two places of the log
EntriesOf(id, from, to) ==
    {i \in from..to : StandsAt(log_file, i, << "Agent " >> \o IntToText(id) \o << " @ " >>)}

\* the counts a summary carries
SummaryCounts(total, changes) ==
    << "Total iterations: " >> \o IntToText(total) \o << NL >>
    \o << "Belief changes detected: " >> \o IntToText(changes) \o << NL >>

RECURSIVE LogMessages(_)
LogMessages(history) ==
    IF Len(history) = 0 THEN << >>
    ELSE LogMessage(history[1].speaker, history[1].round, history[1].content)
         \o LogMessages(Tail(history))

\* the header of the current iteration as log_iteration_start wrote it
CurrentHeader ==
    LogIterationStart(iteration, SIMULATION_ITERATIONS,
                      persuader_id, GetPositionLabel(layout_type, size, persuader_id),
                      defender_id, GetPositionLabel(layout_type, size, defender_id),
                      persuader_belief, defender_belief)

\* the iteration records in the log
RecordsLogged == Cardinality(PlacesOf(log_file, "ITERATION"))

\* the worker of the current iteration exists and holds its transcript
WorkerHolds == wpc # "idle"

\* the current iteration is past log_decision
DecisionTaken == pc \in {"apply", "count", "loop", "done"} /\ iteration >= 1

\* the places of the message entries and of the section headings of a record
MessagePlaces(rec) == PlacesOf(rec, "[Round")

\* the k-th message entry of a record is the one the loop of run_conversation
\* produces k-th: round (k+1) div 2, the persuader first
MessageInTurn(rec, k) ==
    StandsAt(rec, NthPlace(rec, "[Round", k),
             << "[Round", " " >> \o IntToText((k + 1) \div 2)
             \o << "]", " ", IF k % 2 = 1 THEN "PERSUADER" ELSE "DEFENDER", ":", NL >>)

\* the sections of a record stand in the order header, persuader, defender,
\* conversation, messages in turn, decision; no message follows the decision
RecordInOrder(rec) ==
    /\ rec[3] = "ITERATION"
    /\ Cardinality(PlacesOf(rec, "ITERATION")) = 1
    /\ Cardinality(PlacesOf(rec, "CONVERSATION")) = 1
    /\ Cardinality(PlacesOf(rec, "DECISION")) <= 1
    /\ PlacesOf(rec, "PERSUADER") # {} /\ PlacesOf(rec, "DEFENDER") # {}
    /\ 3 < NthPlace(rec, "PERSUADER", 1)
    /\ NthPlace(rec, "PERSUADER", 1) < NthPlace(rec, "DEFENDER", 1)
    /\ NthPlace(rec, "DEFENDER", 1) < NthPlace(rec, "CONVERSATION", 1)
    /\ \A m \in MessagePlaces(rec) : NthPlace(rec, "CONVERSATION", 1) < m
    /\ \A k \in 1..Cardinality(MessagePlaces(rec)) : MessageInTurn(rec, k)
    /\ \A d \in PlacesOf(rec, "DECISION") :
          /\ \A m \in MessagePlaces(rec) : m < d
          /\ rec[d + 4] = "Old belief: "
          /\ \E n \in (d + 4)..Len(rec) : rec[n] = "New belief: " /\
                \E c \in n..Len(rec) : rec[c] = "Change type: "

\* the log of a run that has started its first iteration, record by record
LogInOrder ==
    /\ RecordsLogged = iteration
    /\ \A j \in 1..RecordsLogged : RecordInOrder(RecordOf(log_file, j))
    /\ \A j \in 1..(RecordsLogged - 1) :
          /\ RecordComplete(log_file, j)
          /\ Cardinality(MessagePlaces(RecordOf(log_file, j))) = 2 * CONVERSATION_ROUNDS
    /\ WorkerHolds =>
          RecordOf(log_file, iteration) = CurrentHeader \o LogMessages(conversation_history)
    /\ (DecisionTaken /\ conversation # None) =>
          RecordOf(log_file, iteration) =
              CurrentHeader \o LogMessages(conversation)
              \o LogDecision(defender_belief, new_belief, change_type)

\* C24: the text of one iteration stands in the log in the order header,
\* PERSUADER line and belief, DEFENDER line and belief, CONVERSATION heading,
\* the message entries in the order they were produced, DECISION section; in
\* every state the threads can reach, no message entry stands after the
\* DECISION section of its iteration or in the record of another iteration.
C24_RecordOrder == (iteration >= 1 /\ error # "IndexError") => LogInOrder

\* the decision of the second iteration has just been logged: its record holds
\* the header, every message of the transcript and the decision
C24_Witness ==
    /\ pc = "apply"
    /\ iteration = 2
    /\ RecordsLogged = 2
    /\ Len(conversation) = 2 * CONVERSATION_ROUNDS
    /\ RecordOf(log_file, 2) =
          CurrentHeader \o LogMessages(conversation)
          \o LogDecision(defender_belief, new_belief, change_type)

\* the configuration block has been written
ConfigLogged == PlacesOf(log_file, " agents)") # {}

\* the agent count of the configuration block: the digits between " (" and
\* " agents)"
AgentsLogged ==
    SubSeq(log_file, NthPlace(log_file, " (", 1) + 1, NthPlace(log_file, " agents)", 1) - 1)

\* layout.get_agent_count() of the layout of the run
GetAgentCount == n_agents

\* C25: the agent count written in the configuration block of the log equals
\* get_agent_count() of the layout the run uses, for every layout.
C25_ConfigAgentCount == ConfigLogged => AgentsLogged = IntToText(GetAgentCount)

\* the iterations before iteration i in which agent a was the defender
DefendedBefore(a, i) ==
    {j \in 1..(i - 1) : j <= Len(completed) /\ completed[j].defender_id = a}

\* the belief agent a holds when iteration i starts: the new belief of the most
\* recent earlier iteration in which it was the defender, or its starting belief
HeldAtStart(a, i) ==
    IF DefendedBefore(a, i) = {} THEN start_beliefs[a + 1]
    ELSE LET last == CHOOSE j \in DefendedBefore(a, i) :
                        \A h \in DefendedBefore(a, i) : h <= j
         IN  completed[last].new_belief

\* an iteration has selected its pair and written its header
IterationOpen == iteration >= 1 /\ error # "IndexError" /\ pc # "done"

\* the header of the current iteration with the beliefs held at its start
HeaderAtStart ==
    LogIterationStart(iteration, SIMULATION_ITERATIONS,
                      persuader_id, GetPositionLabel(layout_type, size, persuader_id),
                      defender_id, GetPositionLabel(layout_type, size, defender_id),
                      HeldAtStart(persuader_id, iteration),
                      HeldAtStart(defender_id, iteration))

\* C26: the beliefs recorded for an iteration are those held at its start: the
\* header of iteration i carries, for persuader and defender, the new belief of
\* the most recent earlier iteration in which that agent was the defender, or
\* its starting belief; the Old belief of the DECISION section is the defender
\* belief of the header; and the beliefs the layout holds at the end of the run
\* are formed the same way.
C26_BeliefsAtStepStart ==
    /\ IterationOpen =>
          /\ persuader_belief = HeldAtStart(persuader_id, iteration)
          /\ defender_belief = HeldAtStart(defender_id, iteration)
          /\ StandsAt(RecordOf(log_file, iteration), 1, HeaderAtStart)
    /\ (IterationOpen /\ pc \in {"apply", "count"}) =>
          EndsWith(RecordOf(log_file, iteration),
                   LogDecision(HeldAtStart(defender_id, iteration), new_belief, change_type))
    /\ \A j \in DOMAIN completed :
          completed[j].old_belief = HeldAtStart(completed[j].defender_id, j)
    /\ pc = "done" =>
          \A a \in AgentIds :
             GetBelief(beliefs, a) = HeldAtStart(a, SIMULATION_ITERATIONS + 1)

\* the second iteration starts with an agent whose belief the first iteration
\* changed, and its header shows the changed belief
C26_Witness ==
    /\ pc = "mainloop"
    /\ iteration = 2
    /\ completed[1].change_type = "changed"
    /\ completed[1].defender_id \in {persuader_id, defender_id}
    /\ HeldAtStart(completed[1].defender_id, 2) = completed[1].new_belief
    /\ HeldAtStart(completed[1].defender_id, 2) # start_beliefs[completed[1].defender_id + 1]
    /\ StandsAt(RecordOf(log_file, 2), 1, HeaderAtStart)

\* the draws a run has made when it has started `i` iterations: one per agent
\* for the initial beliefs, three per iteration
DrawsMade(i) == n_agents + 3 * i

\* the state of the seeded generator after that many draws
SeededAfter(draws) == Advance(SeedRandom(RANDOM_SEED, 0), draws)

\* the pair iteration i of a seeded run selects, from the configuration alone
PairOf(i) ==
    LET sel == SelectPair(layout_type, size, n_agents, SeededAfter(DrawsMade(i - 1)))
    IN  << sel.persuader, sel.defender >>

\* a run has passed its setup and every pair selection so far has succeeded
Selecting == pc # "start" /\ error \notin {"ValueError", "IndexError"}

\* C27: the selected (persuader, defender) pairs do not depend on what the
\* conversations return: in a seeded run every started iteration has consumed
\* exactly three draws whatever the earlier outcomes, pair i is the one the
\* seed, the layout and the agent count determine, and a second run with the
\* same seed, layout and catalog whose conversations returned other beliefs
\* has selected the same pair at every iteration.
C27_PairsIgnoreReplies ==
    (RANDOM_SEED # NoSeed /\ Selecting) =>
        /\ rng = SeededAfter(DrawsMade(iteration))
        /\ \A i \in DOMAIN pairs : pairs[i] = PairOf(i)
        /\ (previous.ran /\ pc = "done" /\ beliefs # previous.final) =>
              pairs = previous.pairs

\* two seeded runs of two iterations that started alike and ended with
\* different beliefs
C27_Witness ==
    /\ RANDOM_SEED # NoSeed
    /\ previous.ran /\ pc = "done"
    /\ start_beliefs = previous.start
    /\ beliefs # previous.final
    /\ Len(pairs) = 2 /\ pairs = previous.pairs
    /\ belief_changes >= 1

\* layout.set_belief has run for an iteration that was classified unchanged
AppliedUnchanged == pc = "count" /\ change_type = "unchanged"

\* C28 as stated: if an iteration is classified unchanged, the belief text
\* stored for the defender after Apply is, character for character, the text
\* stored for it before the iteration.
C28_UnchangedKeepsText ==
    AppliedUnchanged => GetBelief(beliefs, defender_id) = defender_belief

\* C28 as amended: if an iteration is classified unchanged, the text stored
\* for the defender after Apply is the reply with its surrounding whitespace
\* removed, and it equals the text stored before the iteration once both are
\* lowercased and stripped of surrounding whitespace.
C28_UnchangedUpToCase ==
    AppliedUnchanged =>
        /\ GetBelief(beliefs, defender_id) = new_belief
        /\ new_belief = Strip(new_belief)
        /\ Strip(Lower(GetBelief(beliefs, defender_id))) = Strip(Lower(defender_belief))

\* an unchanged iteration has replaced the defender's text by its lower-case form
C28_Witness ==
    /\ AppliedUnchanged
    /\ GetBelief(beliefs, defender_id) # defender_belief
    /\ GetBelief(beliefs, defender_id) = Lower(defender_belief)

\* the log that was parsed holds the DECISION section of the iteration
DecisionWritten == PlacesOf(log_file, "DECISION") # {}

\* C29: parse_log_file returns an entry for an iteration only if the DECISION
\* section of that iteration was written to the log, and then with the change
\* type written there; an iteration whose conversation stopped before the
\* decision is not reported with a decision of its own.
C29_OnlyDecidedReported ==
    /\ (pc = "parsed" /\ iteration \in DOMAIN iterations) =>
          iterations[iteration].change_type = << change_type >>
    /\ pc = "parsed_aborted" =>
          (iteration \in DOMAIN iterations => DecisionWritten)

-----------------------------------------------------------------------------
(* chat_gui.py 409-487: one call of run_conversation_with_gui, the worker   *)
(* thread beside the main thread, under the scheduling the code relies on.  *)

NextGui ==
    \/ WorkerSkipRounds
    \/ WorkerPersuaderInLoop
    \/ WorkerDefender
    \/ WorkerFinal
    \/ WorkerStore
    \/ WorkerClassify
    \/ WorkerFail
    \/ ProcessQueue
    \/ DoClose
    \/ UserClose
    \/ JoinWorker
    \/ ReadNewBelief
    \/ Return

\* the poller reschedules itself every 50 ms while the window lives (chat_gui.py
\* 288-289), a timer that was set fires (377), the main thread goes on after
\* mainloop (479-487), and the worker goes on after conversation_func has
\* returned (450-468); a backend call may never answer and the user may never
\* close the window
FairGui ==
    /\ WF_vars(ProcessQueue)
    /\ WF_vars(DoClose)
    /\ WF_vars(JoinWorker)
    /\ WF_vars(ReadNewBelief)
    /\ WF_vars(Return)
    /\ WF_vars(WorkerStore)
    /\ WF_vars(WorkerClassify)

SpecGui == InitConverse /\ [][NextGui]_vars /\ FairGui

\* conversation_func has returned or raised
ConversationEnded == wpc \in {"store", "classify", "done"}

\* the events the worker has put into the queue so far: one per message of the
\* transcript, then the decision once it is classified
Enqueued ==
    [i \in 1..Len(conversation_history) |-> << "message", conversation_history[i] >>]
    \o (IF result.change_type # "<missing>"
        THEN << << "decision", << worker_belief, result.change_type >> >> >>
        ELSE << >>)

\* the call of run_conversation_with_gui is over
CallOver == pc \in {"returned", "aborted"}

\* the call is between the start of the worker and its return statement
InCall == pc \in {"mainloop", "join", "return_belief", "return_change"}

\* what the window shows and will show is what was enqueued, in that order
RenderedAsEnqueued == pc = "mainloop" => rendered \o Shown(message_queue) = Enqueued

\* a step of the worker thread touches neither the window nor the close timer
WorkerOnlyEnqueues ==
    (wpc' # wpc /\ pc' = pc) => (rendered' = rendered /\ close_scheduled' = close_scheduled)

\* the close timer is set by the poller on a close request, and once set it is
\* not set again while the call lasts
ScheduledOnce ==
    /\ (~close_scheduled /\ close_scheduled') =>
          (pc = "mainloop" /\ \E i \in DOMAIN message_queue : message_queue[i][1] = "close")
    /\ (close_scheduled /\ InCall') => close_scheduled'

\* C30 as stated: once the conversation function has returned or raised, a
\* close request is eventually taken from the queue by the poller of the main
\* thread, which schedules the close.
C30_CloseAlwaysTaken == ConversationEnded ~> close_scheduled

\* C30 as amended: the worker only enqueues, the main thread renders the events
\* in the order enqueued, every message before the decision; the close is
\* scheduled at most once; once the conversation function has returned or
\* raised, the poller eventually takes a close request from the queue unless
\* the window has been closed before it could, and in either case the main
\* loop is left and the call returns or raises.
C30_CloseOrUserClose ==
    /\ []RenderedAsEnqueued
    /\ [][WorkerOnlyEnqueues /\ ScheduledOnce]_vars
    /\ ConversationEnded ~> (close_scheduled \/ pc # "mainloop")
    /\ ConversationEnded ~> CallOver

\* the poller has taken the close request of a conversation that returned, the
\* timer has ended the main loop and the call is about to return its triple
C30_Witness ==
    /\ pc = "return_change"
    /\ close_scheduled
    /\ wpc = "done"
    /\ result.error = "None"
    /\ result.change_type # "<missing>"
    /\ conversation = result.history
    /\ Len(conversation) >= 2

====
